---- MODULE Spec2Model ----
(***************************************************************************)
(* A model of the Maveli conversational relay: the turn orchestrator       *)
(* (src/main.py), its response generator and speech synthesizer, and the   *)
(* persistence access object (src/database.py).                            *)
(*                                                                         *)
(* Conventions.  A text is a sequence of Unicode code points.  A Python    *)
(* value that may be None (or a missing attribute) is an option: None is   *)
(* <<>> and a present value x is <<x>>.  An operator that models a Python  *)
(* function returns a record holding the returned value, whether an        *)
(* exception escaped it, and the effects it had on the outside world.      *)
(***************************************************************************)
EXTENDS Integers, Sequences, FiniteSets, TLC

----------------------------------------------------------------------------
(* Bounds of the model.                                                    *)

\* handler executions in Spec
MaxTurns == 1
\* runs of the program (process starts) in FallbackSpec
MaxRuns == 2
\* largest value of the wall clock in DbSpec
MaxTime == 2
\* longest text given to the speech synthesizer in TtsSpec
MaxLen == 3
\* handler executions in RingSpec
MaxRingTurns == 52
\* operations on the persistence object in DbSpec
MaxDbOps == 3
\* largest limit passed to get_user_conversation_history in DbSpec
MaxLimit == 2
\* lines written to bot.log in MonitorSpec
MaxLogLines == 3
\* updates handed to the worker threads in PoolSpec
MaxDispatched == 2
\* handler executions in CountSpec
MaxCountTurns == 3

----------------------------------------------------------------------------
(* Python values.                                                          *)

None == <<>>
Some(x) == <<x>>
\* Python truthiness of an optional text: neither None nor "".
Truthy(o) == o # None /\ o[1] # <<>>

Min(a, b) == IF a < b THEN a ELSE b

\* A variant of the slice that cuts nothing.
take_all(s, n) == s

\* s[:n]
Take(s, n) == SubSeq(s, 1, Min(n, Len(s)))
\* s[-n:]
LastN(s, n) == SubSeq(s, Len(s) - Min(n, Len(s)) + 1, Len(s))

\* str.isspace / the regex class \s on str patterns
IsSpace(c) ==
    \/ c \in 9..13
    \/ c \in 28..32
    \/ c \in {133, 160, 5760, 8232, 8233, 8239, 8287, 12288}
    \/ c \in 8192..8202

RECURSIVE LStrip(_)
LStrip(s) == IF s # <<>> /\ IsSpace(Head(s)) THEN LStrip(Tail(s)) ELSE s

RECURSIVE RStrip(_)
RStrip(s) ==
    IF s # <<>> /\ IsSpace(s[Len(s)]) THEN RStrip(SubSeq(s, 1, Len(s) - 1)) ELSE s

\* str.strip()
Strip(s) == RStrip(LStrip(s))

\* A variant that leaves the letter case alone.
lower_keeps_case(s) == s

\* str.lower() on the cased letters of the messages and of the trigger terms
\* as the source file spells them: the ASCII and the Latin-1 capitals.
Lower(s) ==
    [i \in 1..Len(s) |->
        IF s[i] \in (65..90) \cup ((192..222) \ {215}) THEN s[i] + 32 ELSE s[i]]

\* sub in s
Contains(s, sub) ==
    \E i \in 0..(Len(s) - Len(sub)) : SubSeq(s, i + 1, i + Len(sub)) = sub

RECURSIVE Str(_)
\* str(n) for n >= 0
Str(n) == IF n < 10 THEN <<48 + n>> ELSE Str(n \div 10) \o <<48 + (n % 10)>>

----------------------------------------------------------------------------
(* Speech synthesizer: clean_text_for_tts, text_to_speech_malayalam,       *)
(* cleanup_temp_file.                                                      *)

\* The character class of emoji_pattern.
InEmojiPattern(c) ==
    \/ c \in 128512..128591      \* 1F600-1F64F
    \/ c \in 127744..128511      \* 1F300-1F5FF
    \/ c \in 128640..128767      \* 1F680-1F6FF
    \/ c \in 127462..127487      \* 1F1E0-1F1FF
    \/ c \in 9472..11247         \* 2500-2BEF
    \/ c \in 9986..10160         \* 2702-27B0
    \/ c \in 9410..127569        \* 24C2-1F251
    \/ c \in 129318..129335      \* 1F926-1F937
    \/ c \in 65536..1114111      \* 10000-10FFFF
    \/ c \in 9792..9794          \* 2640-2642
    \/ c \in 9728..11093         \* 2600-2B55
    \/ c \in {8205, 9167, 9193, 8986, 65039, 12336}

\* re.sub(r'\s+', ' ', s): every run of whitespace becomes one space
CollapseSpaces(s) ==
    LET keep == SelectSeq([i \in 1..Len(s) |-> i],
                          LAMBDA i : \/ ~IsSpace(s[i])
                                     \/ i = 1
                                     \/ ~IsSpace(s[i - 1]))
    IN  [k \in 1..Len(keep) |-> IF IsSpace(s[keep[k]]) THEN 32 ELSE s[keep[k]]]

clean_text_for_tts(text) ==
    Strip(CollapseSpaces(SelectSeq(text, LAMBDA c : ~InEmojiPattern(c))))

\* A variant without the check for an empty cleaned text.
SpeakUnchecked(clean, path, e) ==
    IF e.tmp = "raise" THEN [ret |-> None, created |-> {}, remote |-> 0, clean |-> clean]
    ELSE IF e.save = "raise"
         THEN [ret |-> None, created |-> {path}, remote |-> 1, clean |-> clean]
         ELSE [ret |-> Some(path), created |-> {path}, remote |-> 1, clean |-> clean]

tts_without_empty_check(text, path, e) == SpeakUnchecked(clean_text_for_tts(text), path, e)

\* text_to_speech_malayalam once clean_text is computed
Speak(clean, path, e) ==
    IF Strip(clean) = <<>>
    THEN [ret |-> None, created |-> {}, remote |-> 0, clean |-> clean]
    ELSE IF e.tmp = "raise"
    THEN [ret |-> None, created |-> {}, remote |-> 0, clean |-> clean]
    ELSE IF e.save = "raise"
    THEN [ret |-> None, created |-> {path}, remote |-> 1, clean |-> clean]
    ELSE [ret |-> Some(path), created |-> {path}, remote |-> 1, clean |-> clean]

\* text_to_speech_malayalam(text), `path` being the name the next temporary
\* file gets.  ret: the returned path or None; created: the files the call
\* left on disk; remote: the number of calls of the remote TTS service.
text_to_speech_malayalam(text, path, e) == Speak(clean_text_for_tts(text), path, e)

\* cleanup_temp_file(file_path): the files left on disk
cleanup_temp_file(fs, file_path) ==
    IF file_path # None /\ file_path[1] \in fs THEN fs \ {file_path[1]} ELSE fs

----------------------------------------------------------------------------
(* Persistence access object (src/database.py).                            *)
(* users: a function from the stored identifiers to their rows.            *)
(* conversations: the rows in insertion order; the autoincrement id of a   *)
(* row is its position, no row is ever deleted or rewritten.               *)

\* What a call into the storage layer can do: succeed, raise an error of
\* the storage layer (SQLAlchemyError), or raise anything else.
DbOutcomes == {"ok", "sqlerr", "raise"}

\* A variant of the upsert that counts an existing user from 1 again.
upsert_resets_count(us, user_id, username, first_name, last_name, t, outcome) ==
    IF outcome = "sqlerr" THEN [ret |-> FALSE, raised |-> FALSE, users |-> us]
    ELSE IF outcome = "raise" THEN [ret |-> FALSE, raised |-> TRUE, users |-> us]
    ELSE [ret |-> TRUE, raised |-> FALSE,
          users |-> (user_id :> [username |-> username, first_name |-> first_name,
                                 last_name |-> last_name, created_at |-> t,
                                 last_seen |-> t, message_count |-> 1,
                                 is_active |-> TRUE]) @@ us]

\* A variant whose changes survive a database error (no rollback).
upsert_without_rollback(us, user_id, username, first_name, last_name, t, outcome) ==
    IF outcome = "raise" THEN [ret |-> FALSE, raised |-> TRUE, users |-> us]
    ELSE IF user_id \in DOMAIN us
    THEN [ret |-> outcome = "ok", raised |-> FALSE,
          users |-> [us EXCEPT ![user_id] =
                        [@ EXCEPT !.username = username,
                                  !.first_name = first_name,
                                  !.last_name = last_name,
                                  !.last_seen = t,
                                  !.message_count = @ + 1]]]
    ELSE [ret |-> outcome = "ok", raised |-> FALSE,
          users |-> (user_id :> [username |-> username, first_name |-> first_name,
                                 last_name |-> last_name, created_at |-> t,
                                 last_seen |-> t, message_count |-> 1,
                                 is_active |-> TRUE]) @@ us]

\* DatabaseManager.create_or_update_user at time t
create_or_update_user(us, user_id, username, first_name, last_name, t, outcome) ==
    IF outcome = "sqlerr" THEN [ret |-> FALSE, raised |-> FALSE, users |-> us]
    ELSE IF outcome = "raise" THEN [ret |-> FALSE, raised |-> TRUE, users |-> us]
    ELSE IF user_id \in DOMAIN us
    THEN [ret |-> TRUE, raised |-> FALSE,
          users |-> [us EXCEPT ![user_id] =
                        [@ EXCEPT !.username = username,
                                  !.first_name = first_name,
                                  !.last_name = last_name,
                                  !.last_seen = t,
                                  !.message_count = @ + 1]]]
    ELSE [ret |-> TRUE, raised |-> FALSE,
          users |-> (user_id :> [username |-> username, first_name |-> first_name,
                                 last_name |-> last_name, created_at |-> t,
                                 last_seen |-> t, message_count |-> 1,
                                 is_active |-> TRUE]) @@ us]

\* A variant that stores every turn as a voice turn.
save_marks_audio(cs, user_id, user_message, bot_response, audio_generated, t, outcome) ==
    IF outcome = "sqlerr" THEN [ret |-> FALSE, raised |-> FALSE, conversations |-> cs]
    ELSE IF outcome = "raise" THEN [ret |-> FALSE, raised |-> TRUE, conversations |-> cs]
    ELSE [ret |-> TRUE, raised |-> FALSE,
          conversations |-> Append(cs, [id |-> Len(cs) + 1,
                                        user_id |-> user_id,
                                        user_message |-> user_message,
                                        bot_response |-> bot_response,
                                        timestamp |-> t,
                                        audio_generated |-> TRUE])]

\* DatabaseManager.save_conversation at time t
save_conversation(cs, user_id, user_message, bot_response, audio_generated, t, outcome) ==
    IF outcome = "sqlerr" THEN [ret |-> FALSE, raised |-> FALSE, conversations |-> cs]
    ELSE IF outcome = "raise" THEN [ret |-> FALSE, raised |-> TRUE, conversations |-> cs]
    ELSE [ret |-> TRUE, raised |-> FALSE,
          conversations |-> Append(cs, [id |-> Len(cs) + 1,
                                        user_id |-> user_id,
                                        user_message |-> user_message,
                                        bot_response |-> bot_response,
                                        timestamp |-> t,
                                        audio_generated |-> audio_generated])]

\* The positions of the rows of user_id
RowsOf(cs, user_id) == {i \in DOMAIN cs : cs[i].user_id = user_id}

\* The answers the storage engine may give to
\*   filter(user_id == user_id).order_by(timestamp.desc()).limit(limit).all():
\* row positions, newest first.  The order of rows with equal timestamps is
\* not defined by the query, so every order of them is a possible answer.
QueryNewestFirst(cs, user_id, limit) ==
    LET rows == RowsOf(cs, user_id)
        n    == Min(limit, Cardinality(rows))
    IN  {q \in [1..n -> rows] :
            /\ \A i, j \in 1..n : i < j => q[i] # q[j] /\ cs[q[i]].timestamp >= cs[q[j]].timestamp
            /\ \A r \in rows : (\A i \in 1..n : q[i] # r) =>
                                 \A i \in 1..n : cs[r].timestamp <= cs[q[i]].timestamp}

Reverse(s) == [i \in 1..Len(s) |-> s[Len(s) + 1 - i]]

\* The dictionary get_user_conversation_history builds of a row
HistoryEntry(row) ==
    [user_message |-> row.user_message, bot_response |-> row.bot_response,
     timestamp |-> row.timestamp, audio_generated |-> row.audio_generated]

\* DatabaseManager.get_user_conversation_history, q being the answer of the
\* storage engine (an element of QueryNewestFirst) and outcome what the
\* storage layer did.
get_user_conversation_history(cs, q, outcome) ==
    IF outcome = "sqlerr" THEN [ret |-> <<>>, raised |-> FALSE]
    ELSE IF outcome = "raise" THEN [ret |-> <<>>, raised |-> TRUE]
    ELSE [ret |-> Reverse([i \in 1..Len(q) |-> HistoryEntry(cs[q[i]])]), raised |-> FALSE]

\* The transcript block of a history, kept as the sequence of its
\* (user message, reply) pairs; "" when there is no history.
Transcript(h) ==
    [ret |-> [i \in 1..Len(h.ret) |-> <<h.ret[i].user_message, h.ret[i].bot_response>>],
     raised |-> h.raised]

\* DatabaseManager.get_conversation_context
get_conversation_context(cs, q, outcome) ==
    Transcript(get_user_conversation_history(cs, q, outcome))

----------------------------------------------------------------------------
(* Knowledge augmenter and response generator (src/main.py).               *)

\* The persona script, an opaque constant text.
MAVELI_SYSTEM_PROMPT == "MAVELI_SYSTEM_PROMPT"

\* The trigger terms of generate_maveli_response, as the source file spells
\* them: 'what', 'kerala', 'india', 'history' and four terms in Malayalam.
TriggerWords ==
    { <<8225, 165, 233, 8225, 165, 174, 8225, 181, 231, 8225, 165, 167, 8225,
        165, 230, 8225, 165, 163, 8225, 181, 231>>,
      <<119, 104, 97, 116>>,
      <<8225, 165, 239, 8225, 181, 225, 8225, 165, 8734, 8225, 165, 8805, 8225,
        165, 199>>,
      <<107, 101, 114, 97, 108, 97>>,
      <<8225, 165, 225, 8225, 165, 174, 8225, 181, 231, 8225, 165, 167, 8225,
        181, 231, 8225, 165, 216>>,
      <<105, 110, 100, 105, 97>>,
      <<8225, 165, 246, 8225, 165, 8734, 8225, 165, 248, 8225, 165, 167, 8225,
        181, 231, 8225, 165, 8734, 8225, 165, 199>>,
      <<104, 105, 115, 116, 111, 114, 121>> }

\* any(word in user_message.lower() for word in [...])
HasTrigger(user_message) ==
    \E w \in TriggerWords : Contains(Lower(user_message), w)

\* search_wikipedia_knowledge(query) with the answers w of the remote
\* sources: for each language whether the lookup raises, whether the page
\* exists and its summary; for the search whether it raises and the titles
\* it finds.  ret: the returned text as an option, "" being <<>> and a found
\* text the record of its provenance, summary and titles; calls: the remote
\* calls made, in order.
search_wikipedia_knowledge(query, w) ==
    IF w.ml.raises THEN [ret |-> <<>>, calls |-> <<"ml">>]
    ELSE IF w.ml.exists
    THEN [ret |-> <<[source |-> "ml", body |-> Take(w.ml.summary, 500),
                     titles |-> <<>>]>>,
          calls |-> <<"ml">>]
    ELSE IF w.en.raises THEN [ret |-> <<>>, calls |-> <<"ml", "en">>]
    ELSE IF w.en.exists
    THEN [ret |-> <<[source |-> "en", body |-> Take(w.en.summary, 300),
                     titles |-> <<>>]>>,
          calls |-> <<"ml", "en">>]
    ELSE IF w.search.raises THEN [ret |-> <<>>, calls |-> <<"ml", "en", "search">>]
    ELSE IF w.search.results # <<>>
    THEN [ret |-> <<[source |-> "search", body |-> <<>>,
                     titles |-> Take(w.search.results, 3)]>>,
          calls |-> <<"ml", "en", "search">>]
    ELSE [ret |-> <<>>, calls |-> <<"ml", "en", "search">>]

\* A variant that takes no response for truncated.
NeverTruncated(r) == FALSE

\* A response of the remote model: raises, or an object with an optional
\* text field and a list of candidates; a candidate has the string form of
\* its finish reason and the optional texts of its content parts (a missing
\* content, or missing parts, being the empty list).
\* IsTruncated: the first candidate of the response r signals MAX_TOKENS.
IsTruncated(r) ==
    /\ r.candidates # <<>>
    /\ r.candidates[1].finish_reason = "FinishReason.MAX_TOKENS"

\* Reply extraction: response.text when truthy, else the first part of the
\* first candidate when truthy; stripped.
ExtractText(r) ==
    IF Truthy(r.text) THEN Strip(r.text[1])
    ELSE IF /\ r.candidates # <<>>
            /\ r.candidates[1].parts # <<>>
            /\ Truthy(r.candidates[1].parts[1])
    THEN Strip(r.candidates[1].parts[1][1])
    ELSE <<>>

\* The fallback pool, each entry abbreviated to its first three and three
\* of its last code points (as the source file spells them).
fallback_responses ==
    << <<8225, 165, 960, 235, 63743, 252>>,
       <<8225, 165, 182, 181, 63743, 252>>,
       <<8225, 165, 198, 176, 63743, 252>>,
       <<8225, 165, 8482, 8800, 63743, 252>>,
       <<8225, 165, 239, 180, 63743, 252>>,
       <<8225, 165, 198, 196, 63743, 252>>,
       <<8225, 165, 8804, 252, 63743, 252>>,
       <<8225, 165, 180, 8482, 63743, 252>>,
       <<8225, 165, 8719, 216, 63743, 252>>,
       <<8225, 165, 214, 233, 181, 8218>> >>

RECURSIVE HashFrom(_, _)
HashFrom(h, s) ==
    IF s = <<>> THEN h ELSE HashFrom((h * 33 + Head(s)) % 65536, Tail(s))

\* Python's hash() of a str.  It is a keyed hash whose key is drawn when the
\* process starts (hash randomization); the model keeps that dependence: a
\* signed value computed from the text and the key of the process.
hash(s, seed) ==
    LET h == HashFrom(seed, s) IN IF h >= 32768 THEN h - 65536 ELSE h

\* The reply extracted from a response, or the ValueError for an empty one
Extracted(t, model, wiki) ==
    [exc |-> Len(Strip(t)) = 0, val |-> t, model |-> model, wiki |-> wiki]

\* The try block of generate_maveli_response from the first request on,
\* ctx being the context block and w the result of the encyclopedia lookup.
RequestReply(user_message, e, ctx, w) ==
    LET call1  == [prompt |-> [kind |-> "full", persona |-> MAVELI_SYSTEM_PROMPT,
                               context |-> ctx, knowledge |-> w.ret,
                               message |-> user_message],
                   max_output_tokens |-> 150]
        call2  == [prompt |-> [kind |-> "short", persona |-> MAVELI_SYSTEM_PROMPT,
                               context |-> <<>>, knowledge |-> <<>>,
                               message |-> user_message],
                   max_output_tokens |-> 100]
    IN  IF e.r1.raises
        THEN [exc |-> TRUE, val |-> <<>>, model |-> <<call1>>, wiki |-> w.calls]
        ELSE IF IsTruncated(e.r1)
        THEN IF e.r2.raises
             THEN [exc |-> TRUE, val |-> <<>>, model |-> <<call1, call2>>, wiki |-> w.calls]
             ELSE Extracted(ExtractText(e.r2), <<call1, call2>>, w.calls)
        ELSE Extracted(ExtractText(e.r1), <<call1>>, w.calls)

\* context = "" when get_conversation_context raises
ContextOrEmpty(c) == IF c.raised THEN <<>> ELSE c.ret

\* The body of the try block of generate_maveli_response.  exc: an
\* exception left the block; val: the value returned otherwise; model: the
\* calls of the remote model, in order; wiki: the encyclopedia calls.
GenerateTry(user_message, user_id, cs, e) ==
    RequestReply(user_message, e,
                 ContextOrEmpty(get_conversation_context(cs, e.q, e.ctx)),
                 IF HasTrigger(user_message)
                 THEN search_wikipedia_knowledge(user_message, e.wiki)
                 ELSE [ret |-> <<>>, calls |-> <<>>])

\* A variant of the except block that answers with the user's own words.
fallback_echoes_message(user_message, user_id, seed) == user_message

\* The except block of generate_maveli_response: the pool entry at
\* hash(user_message + str(user_id)) % len(fallback_responses).
FallbackReply(user_message, user_id, seed) ==
    fallback_responses[(hash(user_message \o Str(user_id), seed)
                          % Len(fallback_responses)) + 1]

\* A variant without the except block: what the try block did is the result.
Unhandled(t) ==
    [ret |-> t.val, raised |-> t.exc, fallback |-> FALSE,
     model |-> t.model, wiki |-> t.wiki]

generate_without_handler(user_message, user_id, cs, e, seed) ==
    Unhandled(GenerateTry(user_message, user_id, cs, e))

\* The result of generate_maveli_response, t being what its try block did
Handled(user_message, user_id, seed, t) ==
    IF t.exc
    THEN [ret |-> FallbackReply(user_message, user_id, seed), raised |-> FALSE,
          fallback |-> TRUE, model |-> t.model, wiki |-> t.wiki]
    ELSE [ret |-> t.val, raised |-> FALSE, fallback |-> FALSE,
          model |-> t.model, wiki |-> t.wiki]

\* A variant that retries only when the cut-off answer carries no text.
SettlesForCutOff(e) ==
    IF ~e.r1.raises /\ IsTruncated(e.r1) /\ ExtractText(e.r1) # <<>>
    THEN [e EXCEPT !.r1.candidates[1].finish_reason = "FinishReason.STOP"]
    ELSE e

generate_keeps_cut_off_text(user_message, user_id, cs, e, seed) ==
    Handled(user_message, user_id, seed,
            GenerateTry(user_message, user_id, cs, SettlesForCutOff(e)))

\* generate_maveli_response(user_message, user_id) in a process whose hash
\* key is seed, over the stored conversations cs and the answers e of its
\* dependencies.
generate_maveli_response(user_message, user_id, cs, e, seed) ==
    Handled(user_message, user_id, seed, GenerateTry(user_message, user_id, cs, e))

----------------------------------------------------------------------------
(* Log file and dashboard (src/main.py, src/monitor.py).                   *)
(* A line of bot.log: timestamp is <<t>> when the line has the layout of   *)
(* the logging format 'asctime - name - levelname - message' with the time *)
(* t, and None when it has not; about is what a line for a received        *)
(* message was written for, and <<>> on every other line.                  *)

LogLine(timestamp, level, message, about) ==
    [timestamp |-> timestamp, level |-> level, message |-> message, about |-> about]

\* "Received message from user "
ReceivedPrefix ==
    <<82, 101, 99, 101, 105, 118, 101, 100, 32, 109, 101, 115, 115, 97,
      103, 101, 32, 102, 114, 111, 109, 32, 117, 115, 101, 114, 32>>

\* 'received message from user', the phrase get_bot_statistics looks for in
\* the lower-cased message, and the literal beginning of its pattern
ReceivedPhrase ==
    <<114, 101, 99, 101, 105, 118, 101, 100, 32, 109, 101, 115, 115, 97,
      103, 101, 32, 102, 114, 111, 109, 32, 117, 115, 101, 114>>
PatternLiteral == ReceivedPhrase \o <<32>>

\* logger.info(f"Received message from user {user_id} ({user_name}):
\* {user_message[:100]}...")
ReceivedMessage(user_id, user_name, user_message) ==
    ReceivedPrefix \o Str(user_id) \o <<32, 40>> \o user_name \o <<41, 58, 32>>
        \o Take(user_message, 100) \o <<46, 46, 46>>

\* parse_log_entry: the entry of a line in the logging format, else None
parse_log_entry(log_line) ==
    IF log_line.timestamp = None THEN None
    ELSE Some([timestamp |-> log_line.timestamp[1], level |-> log_line.level,
               message |-> log_line.message])

\* The number of code points of s from position i on that are digits (\d+),
\* that are not ")" ([^)]+), that are not a line break (.+): the longest run.
DigitRun(s, i) ==
    IF i > Len(s) THEN 0
    ELSE CHOOSE n \in 0..(Len(s) - i + 1) :
            /\ \A k \in 0..(n - 1) : s[i + k] \in 48..57
            /\ (i + n > Len(s) \/ s[i + n] \notin 48..57)
NameRun(s, i) ==
    IF i > Len(s) THEN 0
    ELSE CHOOSE n \in 0..(Len(s) - i + 1) :
            /\ \A k \in 0..(n - 1) : s[i + k] # 41
            /\ (i + n > Len(s) \/ s[i + n] = 41)
RestRun(s, i) ==
    IF i > Len(s) THEN 0
    ELSE CHOOSE n \in 0..(Len(s) - i + 1) :
            /\ \A k \in 0..(n - 1) : s[i + k] # 10
            /\ (i + n > Len(s) \/ s[i + n] = 10)

\* The pattern r'received message from user (\d+) \(([^)]+)\): (.+)'
\* matched at position i of s, lit being its literal beginning: the three
\* groups, or None.
MatchAt(s, i, lit) ==
    LET a == i + Len(lit)
        b == a + DigitRun(s, a)
        c == b + 2 + NameRun(s, b + 2)
        r == RestRun(s, c + 3)
    IN  IF /\ a - 1 <= Len(s)
           /\ SubSeq(s, i, a - 1) = lit
           /\ b > a
           /\ b + 1 <= Len(s) /\ s[b] = 32 /\ s[b + 1] = 40
           /\ c > b + 2
           /\ c + 2 <= Len(s) /\ s[c] = 41 /\ s[c + 1] = 58 /\ s[c + 2] = 32
           /\ r >= 1
        THEN Some([user_id |-> SubSeq(s, a, b - 1),
                   user_name |-> SubSeq(s, b + 2, c - 1),
                   user_message |-> SubSeq(s, c + 3, c + 2 + r)])
        ELSE None

\* re.search(pattern, s): the leftmost match, or None
Search(s, lit) ==
    IF \E i \in 1..Len(s) : MatchAt(s, i, lit) # None
    THEN MatchAt(s, CHOOSE i \in 1..Len(s) :
                        /\ MatchAt(s, i, lit) # None
                        /\ \A j \in 1..(i - 1) : MatchAt(s, j, lit) = None,
                 lit)
    ELSE None

\* The entry get_bot_statistics appends for the match m in a line of time t
RecentEntry(t, m) ==
    [timestamp |-> t, user_id |-> m.user_id, user_name |-> m.user_name,
     message |-> Take(m.user_message, 150)
                   \o (IF Len(m.user_message) > 150 THEN <<46, 46, 46>> ELSE <<>>)]

\* The loop body of get_bot_statistics for the parsed entry of one line
CountEntry(stats, entry, found) ==
    LET message == Lower(entry.message)
        levels  == [stats EXCEPT
                      !.error_count = IF entry.level = "ERROR" THEN @ + 1 ELSE @,
                      !.warning_count = IF entry.level = "WARNING" THEN @ + 1 ELSE @,
                      !.info_count = IF entry.level = "INFO" THEN @ + 1 ELSE @]
    IN  IF Contains(message, ReceivedPhrase)
        THEN [levels EXCEPT
                !.user_messages = @ + 1,
                !.recent_user_messages =
                    IF found = None THEN @
                    ELSE Append(@, RecentEntry(entry.timestamp, found[1]))]
        ELSE IF Contains(message, <<103, 101, 110, 101, 114, 97, 116, 101, 100, 32, 97, 117, 100, 105,
          111, 32, 102, 105, 108, 101>>)
        THEN [levels EXCEPT !.audio_generations = @ + 1]
        ELSE IF Contains(message, <<103, 101, 110, 101, 114, 97, 116, 101, 100, 32, 103, 101, 109, 105,
          110, 105, 32, 114, 101, 115, 112, 111, 110, 115, 101>>)
        THEN [levels EXCEPT !.gemini_requests = @ + 1]
        ELSE levels

RECURSIVE ScanLogs(_, _)
\* The loop of get_bot_statistics over the lines logs
ScanLogs(logs, stats) ==
    IF logs = <<>> THEN stats
    ELSE ScanLogs(Tail(logs),
                  IF parse_log_entry(Head(logs)) = None THEN stats
                  ELSE CountEntry(stats, parse_log_entry(Head(logs))[1],
                                  Search(Head(logs).message, PatternLiteral)))

\* The last 20 entries
KeepRecent(stats) ==
    [stats EXCEPT !.recent_user_messages = LastN(@, 20)]

\* get_bot_statistics() over the lines of bot.log
get_bot_statistics(lines) ==
    KeepRecent(ScanLogs(LastN(lines, 1000),
                        [total_logs |-> Len(LastN(lines, 1000)), error_count |-> 0,
                         warning_count |-> 0, info_count |-> 0, user_messages |-> 0,
                         audio_generations |-> 0, gemini_requests |-> 0,
                         recent_user_messages |-> <<>>]))

\* No statistics computed yet; read: the number of lines the last call read.
NoDash == [read |-> 0, stats |-> get_bot_statistics(<<>>)]

----------------------------------------------------------------------------
(* State.                                                                  *)

VARIABLES
    bot_stats,      \* the in-memory counters and the recent_messages buffer
    users,          \* table users
    conversations,  \* table conversations
    now,            \* the wall clock
    files,          \* the temporary audio files on disk
    tmp_seq,        \* the number of temporary files created so far
    hash_seed,      \* the hash key of the running process
    runs,           \* the number of process starts so far
    turns,          \* the number of handler executions so far, in all runs
    last,           \* the update processed last, the handler it went to, and
                    \* whether an exception left the handler
    calls,          \* the outside calls of the last handler execution, in order
    gen,            \* the last call of generate_maveli_response
    gen_in,         \* the arguments and dependency answers of a call under GenSpec
    tts,            \* the last call of text_to_speech_malayalam
    prev_fallback,  \* the fallback reply given before the last one, if any
    db_last,        \* the last operation on the persistence object under DbSpec
    upserts,        \* the number of successful upserts under DbSpec, by identifier
    workers,        \* what each worker thread of the bot is doing under PoolSpec
    log,            \* the lines of bot.log under MonitorSpec
    dash            \* what get_bot_statistics returned last under MonitorSpec

vars == <<bot_stats, users, conversations, now, files, tmp_seq, hash_seed, runs,
          turns, last, calls, gen, gen_in, tts, prev_fallback, db_last, upserts,
          workers, log, dash>>

\* The administrator identifier the model configures (ADMIN_USER_ID).
ADMIN_USER_ID == 1

\* The senders of the model: the administrator and another user.
Senders ==
    { [id |-> 1, first_name |-> Some("Asha"), username |-> Some("asha"),
       last_name |-> None],
      [id |-> 2, first_name |-> None, username |-> None, last_name |-> None] }

TextHi == <<104, 105>>
TextStats == <<47, 115, 116, 97, 116, 115>>
TextStart == <<47, 115, 116, 97, 114, 116>>
TextWhat == <<119, 104, 97, 116>>
TextWhatUpper == <<87, 72, 65, 84>>
TextHello == <<72, 101, 108, 108, 111>>

\* The hash keys a process may draw.
Seeds == {1, 2}

\* o or d, for an optional name
NameOr(o, d) == IF o = None THEN d ELSE o[1]

InitStats ==
    [total_messages |-> 0, successful_responses |-> 0, failed_responses |-> 0,
     audio_generations |-> 0, recent_messages |-> <<>>]

NoMessage ==
    [message_id |-> 0,
     from_user |-> [id |-> 0, first_name |-> None, username |-> None,
                    last_name |-> None],
     text |-> <<>>]

NoGen ==
    [called |-> FALSE, message |-> <<>>, user_id |-> 0, ret |-> <<>>,
     raised |-> FALSE, fallback |-> FALSE, model |-> <<>>, wiki |-> <<>>]

NoTts ==
    [called |-> FALSE, text |-> <<>>, ret |-> None, created |-> {}, remote |-> 0]

\* The last storage operation called directly: names are the username, first
\* name and last name an upsert was given; rows are the positions in
\* conversations of the entries of result, in the order of result.
NoDbOp ==
    [op |-> "none", user_id |-> 0, names |-> <<>>, limit |-> 0, ok |-> FALSE,
     result |-> <<>>, rows |-> <<>>, saved |-> None]

\* The worker threads of the bot: telebot.TeleBot(token) is threaded with
\* two worker threads unless told otherwise, and main.py does not tell.
NumThreads == 2

\* A worker thread without a task.  pc: where the thread is in its handler;
\* handler, message: the handler it runs and on which update; loaded: the
\* value of total_messages it read.
IdleWorker == [pc |-> "idle", handler |-> "none", message |-> NoMessage, loaded |-> 0]

\* An outside call: the operation, what it carried (for the upsert: how the
\* storage layer answered), whether it worked, and the message it replies to.
Call(op, what, text, ok) ==
    [op |-> op, what |-> what, text |-> text, ok |-> ok, reply_to |-> 0]

\* A variant of a send that goes to the chat without naming a message.
ToChat(c, m) == c

\* The send c made as a reply to the message m: bot.reply_to(message, ...)
\* and send_voice(..., reply_to_message_id=message.message_id); reply_to 0
\* stands for a call that names no message.
InReplyTo(c, m) == [c EXCEPT !.reply_to = m.message_id]

----------------------------------------------------------------------------
(* Answers of the remote model.                                            *)

Resp(text, cands) == [raises |-> FALSE, text |-> text, candidates |-> cands]
Cand(reason, parts) == [finish_reason |-> reason, parts |-> parts]
RaiseOutcome == [raises |-> TRUE, text |-> None, candidates |-> <<>>]

\* None, "", " ", "a", " b "
FieldTexts == {None, Some(<<>>), Some(<<32>>), Some(<<97>>), Some(<<32, 98, 32>>)}

CandLists ==
    {<<>>} \cup
    { <<Cand(fr, p)>> : fr \in {"FinishReason.STOP", "FinishReason.MAX_TOKENS"},
                        p \in {<<>>} \cup {<<t>> : t \in FieldTexts} }

ModelOutcomes == {RaiseOutcome} \cup {Resp(t, c) : t \in FieldTexts, c \in CandLists}

\* The answers of the encyclopedia sources.
Page(raises, exists, summary) == [raises |-> raises, exists |-> exists, summary |-> summary]
Found(raises, results) == [raises |-> raises, results |-> results]
NoWiki ==
    [ml |-> Page(FALSE, FALSE, <<>>), en |-> Page(FALSE, FALSE, <<>>),
     search |-> Found(FALSE, <<>>)]
WikiEnvs ==
    { [NoWiki EXCEPT !.ml = Page(TRUE, FALSE, <<>>)],
      [NoWiki EXCEPT !.ml = Page(FALSE, TRUE, <<107>>)],
      [NoWiki EXCEPT !.en = Page(TRUE, FALSE, <<>>)],
      [NoWiki EXCEPT !.en = Page(FALSE, TRUE, <<101>>)],
      [NoWiki EXCEPT !.search = Found(TRUE, <<>>)],
      [NoWiki EXCEPT !.search = Found(FALSE, << <<116>>, <<117>>, <<118>>, <<119>> >>)],
      NoWiki }

\* The dependency answers of one call of generate_maveli_response for
\* user_message and user_id over the stored conversations: only the answers
\* the call can ask for vary.
GenEnvs(user_message, user_id, cs, Ctx, R1, R2) ==
    { [ctx |-> c, q |-> q, wiki |-> w, r1 |-> r1, r2 |-> r2] :
        c \in Ctx,
        q \in QueryNewestFirst(cs, user_id, 3),
        w \in IF HasTrigger(user_message) THEN WikiEnvs ELSE {NoWiki},
        r1 \in {r \in R1 : ~IsTruncated(r)},
        r2 \in {RaiseOutcome} }
    \cup
    { [ctx |-> c, q |-> q, wiki |-> w, r1 |-> r1, r2 |-> r2] :
        c \in Ctx,
        q \in QueryNewestFirst(cs, user_id, 3),
        w \in IF HasTrigger(user_message) THEN WikiEnvs ELSE {NoWiki},
        r1 \in {r \in R1 : IsTruncated(r)},
        r2 \in R2 }

DefaultGenEnv ==
    [ctx |-> "ok", q |-> <<>>, wiki |-> NoWiki, r1 |-> RaiseOutcome, r2 |-> RaiseOutcome]

----------------------------------------------------------------------------
(* Turn orchestrator (src/main.py): handle_message, send_welcome,          *)
(* send_stats and the dispatch of an update to the first matching handler. *)

\* The canned texts of the handlers, each abbreviated to its first four code
\* points (as the source file spells them).
ErrorMessage == <<8225, 165, 233, 8225>>
WelcomeText == <<63743, 252, 238, 8226>>
StatsText == <<63743, 252, 236, 228>>
DeniedText == <<8225, 165, 239, 8225>>

\* A variant of the cut that evicts only when the buffer holds 51 entries
\* already.
AppendRecentLate(buf, entry) ==
    LET appended == Append(buf, entry) IN
    IF Len(appended) > 51 THEN LastN(appended, 50) ELSE appended

\* bot_stats['recent_messages'].append(entry), then the cut to the last 50
AppendRecent(buf, entry) ==
    LET appended == Append(buf, entry) IN
    IF Len(appended) > 50 THEN LastN(appended, 50) ELSE appended

\* recent_messages[-1] marked as answered
MarkSent(buf, response) ==
    IF buf = <<>> THEN buf
    ELSE [buf EXCEPT ![Len(buf)] =
             [@ EXCEPT !.response_sent = TRUE, !.response = Some(Take(response, 100))]]

\* The answers of the outside world to one execution of handle_message:
\*   up, save  what the storage layer does on the upsert and on the save
\*   chat      "ok", or which send_chat_action raises: "fail1", "fail2"
\*   gen       the answers to generate_maveli_response
\*   tts       the answers to text_to_speech_malayalam
\*   send      whether send_voice / reply_to of the reply raises
\*   apology   whether reply_to of the apology raises

\* A variant of the except block that sends no apology.
SendNoApology(e) == <<>>

\* The except block of handle_message: one attempt to send the fixed
\* apology, a failure of which is logged and swallowed.
SendApology(e) == <<Call("reply_to", "apology", ErrorMessage, e.apology = "ok")>>

\* handle_message from the try block on: us is the users table the upsert
\* left, g the result of generate_maveli_response and t the result of
\* text_to_speech_malayalam on its reply (asked for only when the turn gets
\* that far).
Respond(m, e, us, g, t) ==
    LET user_id      == m.from_user.id
        user_message == m.text
        user_name    == NameOr(m.from_user.first_name, "Unknown")
        username     == m.from_user.username
        entry == [timestamp |-> now, user_id |-> user_id, user_name |-> user_name,
                  username |-> NameOr(username, "No username"),
                  message |-> Take(user_message, 200),
                  response_sent |-> FALSE, response |-> None]
        stats0 == [bot_stats EXCEPT
                     !.total_messages = @ + 1,
                     !.recent_messages = AppendRecent(@, entry)]
        c_up  == <<Call("create_or_update_user", e.up, <<>>, e.up = "ok")>>
        gcall == [called |-> TRUE, message |-> user_message, user_id |-> user_id,
                  ret |-> g.ret, raised |-> g.raised, fallback |-> g.fallback,
                  model |-> g.model, wiki |-> g.wiki]
        c_gen == [i \in 1..Len(g.model) |->
                    Call("generate_content", g.model[i].prompt.kind, <<>>,
                         IF i = 1 THEN ~e.gen.r1.raises ELSE ~e.gen.r2.raises)]
        tcall == [called |-> TRUE, text |-> g.ret, ret |-> t.ret,
                  created |-> t.created, remote |-> t.remote]
        c_tts == IF t.remote > 0
                 THEN <<Call("gTTS.save", "", t.clean, t.ret # None)>>
                 ELSE <<>>
        c_apo == [i \in DOMAIN SendApology(e) |-> InReplyTo(SendApology(e)[i], m)]
        failed == [stats0 EXCEPT !.failed_responses = @ + 1]
        sv(audio) == save_conversation(conversations, user_id, user_message, g.ret,
                                       audio, now, e.save)
        c_sv(audio) == <<Call("save_conversation",
                              IF audio THEN "audio_generated=True"
                                       ELSE "audio_generated=False",
                              g.ret, e.save = "ok")>>
        base  == [stats |-> failed, users |-> us, conversations |-> conversations,
                  files |-> files, tmp_seq |-> tmp_seq, calls |-> <<>>,
                  gen |-> NoGen, tts |-> NoTts, raised |-> FALSE]
    IN
    IF e.chat = "fail1"
    THEN [base EXCEPT !.calls = c_up \o <<Call("send_chat_action", "typing", <<>>, FALSE)>>
                                 \o c_apo]
    ELSE IF g.raised
    THEN [base EXCEPT !.gen = gcall,
                      !.calls = c_up \o <<Call("send_chat_action", "typing", <<>>, TRUE)>>
                                 \o c_gen \o c_apo]
    ELSE IF e.chat = "fail2"
    THEN [base EXCEPT !.gen = gcall,
                      !.calls = c_up \o <<Call("send_chat_action", "typing", <<>>, TRUE)>>
                                 \o c_gen
                                 \o <<Call("send_chat_action", "upload_voice", <<>>, FALSE)>>
                                 \o c_apo]
    ELSE
    LET pre == c_up \o <<Call("send_chat_action", "typing", <<>>, TRUE)>> \o c_gen
                    \o <<Call("send_chat_action", "upload_voice", <<>>, TRUE)>> \o c_tts
        onDisk == files \cup t.created
        seq    == IF t.created = {} THEN tmp_seq ELSE tmp_seq + 1
        synth  == [base EXCEPT !.gen = gcall, !.tts = tcall, !.files = onDisk,
                               !.tmp_seq = seq]
    IN
    IF t.ret # None
    THEN IF e.send = "raise"
         THEN [synth EXCEPT !.calls = pre \o <<InReplyTo(Call("send_voice", "reply", g.ret, FALSE), m)>>
                                          \o c_apo]
         ELSE [synth EXCEPT
                 !.files = cleanup_temp_file(onDisk, t.ret),
                 !.stats = [stats0 EXCEPT
                              !.audio_generations = @ + 1,
                              !.successful_responses = @ + 1,
                              !.recent_messages = MarkSent(@, g.ret)],
                 !.conversations = sv(TRUE).conversations,
                 !.calls = pre \o <<InReplyTo(Call("send_voice", "reply", g.ret, TRUE), m)>>
                                \o c_sv(TRUE)]
    ELSE IF e.send = "raise"
         THEN [synth EXCEPT !.calls = pre \o <<InReplyTo(Call("reply_to", "reply", g.ret, FALSE), m)>>
                                          \o c_apo]
         ELSE [synth EXCEPT
                 !.stats = [stats0 EXCEPT
                              !.successful_responses = @ + 1,
                              !.recent_messages = MarkSent(@, g.ret)],
                 !.conversations = sv(FALSE).conversations,
                 !.calls = pre \o <<InReplyTo(Call("reply_to", "reply", g.ret, TRUE), m)>>
                                \o c_sv(FALSE)]

\* The reply of the turn, synthesized
Converse(m, e, us, g) ==
    Respond(m, e, us, g, text_to_speech_malayalam(g.ret, tmp_seq + 1, e.tts))

\* A variant of the handler that persists the turn before anything else.
SavesFirst(r) ==
    [r EXCEPT !.calls = SelectSeq(r.calls, LAMBDA c : c.op = "save_conversation")
                          \o SelectSeq(r.calls, LAMBDA c : c.op # "save_conversation")]

handle_message_saves_first(m, e) ==
    SavesFirst(Converse(m, e,
                        create_or_update_user(users, m.from_user.id, m.from_user.username,
                                              NameOr(m.from_user.first_name, "Unknown"),
                                              m.from_user.last_name, now, e.up).users,
                        generate_maveli_response(m.text, m.from_user.id, conversations,
                                                 e.gen, hash_seed)))

\* A variant of the handler whose every turn counts as failed as well.
AlsoFailed(r) == [r EXCEPT !.stats.failed_responses = bot_stats.failed_responses + 1]

handle_message_counts_failure(m, e) ==
    AlsoFailed(Converse(m, e,
                        create_or_update_user(users, m.from_user.id, m.from_user.username,
                                              NameOr(m.from_user.first_name, "Unknown"),
                                              m.from_user.last_name, now, e.up).users,
                        generate_maveli_response(m.text, m.from_user.id, conversations,
                                                 e.gen, hash_seed)))

\* handle_message(message) with the answers e: the state it leaves.
handle_message(m, e) ==
    Converse(m, e,
             create_or_update_user(users, m.from_user.id, m.from_user.username,
                                   NameOr(m.from_user.first_name, "Unknown"),
                                   m.from_user.last_name, now, e.up).users,
             generate_maveli_response(m.text, m.from_user.id, conversations,
                                      e.gen, hash_seed))

\* send_welcome(message)
send_welcome(m, send) ==
    [stats |-> [bot_stats EXCEPT !.total_messages = @ + 1],
     users |-> users, conversations |-> conversations, files |-> files,
     tmp_seq |-> tmp_seq,
     calls |-> <<InReplyTo(Call("reply_to", "welcome", WelcomeText, send = "ok"), m)>>,
     gen |-> NoGen, tts |-> NoTts, raised |-> send = "raise"]

\* send_stats(message)
send_stats(m, send) ==
    [stats |-> bot_stats,
     users |-> users, conversations |-> conversations, files |-> files,
     tmp_seq |-> tmp_seq,
     calls |-> IF m.from_user.id = ADMIN_USER_ID
               THEN <<InReplyTo(Call("reply_to", "stats", StatsText, send = "ok"), m)>>
               ELSE <<InReplyTo(Call("reply_to", "denied", DeniedText, send = "ok"), m)>>,
     gen |-> NoGen, tts |-> NoTts, raised |-> send = "raise"]

----------------------------------------------------------------------------
(* Dispatch.  The handlers in the order the decorators register them; an   *)
(* update goes to the first handler whose filter accepts it.               *)

\* The command of a text: the first word without its '/' and without an
\* '@' suffix, when the text starts with '/'.
Command(text) ==
    IF text = <<>> \/ text[1] # 47 THEN None
    ELSE LET stop(i) == i = Len(text) + 1 \/ IsSpace(text[i]) \/ text[i] = 64
             k == CHOOSE i \in 1..(Len(text) + 1) :
                     stop(i) /\ \A j \in 1..(i - 1) : ~stop(j)
         IN  Some(SubSeq(text, 2, k - 1))

\* @bot.message_handler(commands=['start', 'help']), then
\* @bot.message_handler(func=lambda message: True), then
\* @bot.message_handler(commands=['stats'])
Handlers ==
    << [name |-> "send_welcome", any |-> FALSE,
        commands |-> {<<115, 116, 97, 114, 116>>, <<104, 101, 108, 112>>}],
       [name |-> "handle_message", any |-> TRUE, commands |-> {}],
       [name |-> "send_stats", any |-> FALSE,
        commands |-> {<<115, 116, 97, 116, 115>>}] >>

Matches(h, m) ==
    \/ h.any
    \/ Command(m.text) # None /\ Command(m.text)[1] \in h.commands

\* The name of the handler an update goes to ("none": no handler accepts it).
FirstMatch(m) ==
    IF \E i \in DOMAIN Handlers : Matches(Handlers[i], m)
    THEN Handlers[CHOOSE i \in DOMAIN Handlers :
                    /\ Matches(Handlers[i], m)
                    /\ \A j \in 1..(i - 1) : ~Matches(Handlers[j], m)].name
    ELSE "none"

----------------------------------------------------------------------------
(* The answers of the outside world to a turn, as far as the turn asks.    *)

Outcomes == {"ok", "raise"}

\* The three ways text_to_speech_malayalam can go once the text is speakable.
TtsPaths ==
    { [tmp |-> "ok", save |-> "ok"], [tmp |-> "ok", save |-> "raise"],
      [tmp |-> "raise", save |-> "ok"] }

TurnEnvs(G, Up, Sv) ==
    { [up |-> u, chat |-> "fail1", gen |-> DefaultGenEnv, tts |-> [tmp |-> "ok", save |-> "ok"],
       send |-> "ok", save |-> "ok", apology |-> a] : u \in Up, a \in Outcomes }
    \cup
    { [up |-> u, chat |-> "fail2", gen |-> g, tts |-> [tmp |-> "ok", save |-> "ok"],
       send |-> "ok", save |-> "ok", apology |-> a] : u \in Up, g \in G, a \in Outcomes }
    \cup
    { [up |-> u, chat |-> "ok", gen |-> g, tts |-> t,
       send |-> "raise", save |-> "ok", apology |-> a] :
         u \in Up, g \in G, t \in TtsPaths, a \in Outcomes }
    \cup
    { [up |-> u, chat |-> "ok", gen |-> g, tts |-> t,
       send |-> "ok", save |-> sv, apology |-> "ok"] :
         u \in Up, g \in G, t \in TtsPaths, sv \in Sv }

\* The answers of the remote model the turns of Spec draw from: the call
\* raises, returns "a", returns pictographs only, or is cut off and retried.
TurnR1 ==
    { RaiseOutcome, Resp(Some(<<97>>), <<>>), Resp(Some(<<128512, 128081>>), <<>>),
      Resp(None, <<Cand("FinishReason.MAX_TOKENS", <<Some(<<97>>)>>)>>) }
TurnR2 == { RaiseOutcome, Resp(Some(<<98>>), <<>>) }

\* The state a handler leaves, installed.
Install(r) ==
    /\ bot_stats' = r.stats
    /\ users' = r.users
    /\ conversations' = r.conversations
    /\ files' = r.files
    /\ tmp_seq' = r.tmp_seq
    /\ calls' = r.calls
    /\ gen' = r.gen
    /\ tts' = r.tts

\* The handler h ran on the update m and left r.
Ran(h, m, r) ==
    /\ last' = [handler |-> h, message |-> m, raised |-> r.raised]
    /\ Install(r)

\* The answers of the storage layer the turns of Spec draw from.
TurnDb == {"ok", "sqlerr"}

\* The polling loop takes one update of the senders S with a text of T
\* and runs the first matching handler to completion; Envs[text, id] are
\* the answers of the outside world a turn on that text of that sender can
\* meet.  Every update arrives
\* at a later reading of the clock.
Update(S, T, Envs) ==
    /\ \E sender \in S, text \in T :
          LET m == [message_id |-> turns + 1, from_user |-> sender, text |-> text]
              h == FirstMatch(m)
          IN  IF h = "send_welcome"
              THEN \E s \in Outcomes : Ran(h, m, send_welcome(m, s))
              ELSE IF h = "send_stats"
              THEN \E s \in Outcomes : Ran(h, m, send_stats(m, s))
              ELSE /\ h = "handle_message"
                   /\ \E e \in Envs[text, sender.id] : Ran(h, m, handle_message(m, e))
    /\ now' = now + 1
    /\ turns' = turns + 1
    /\ UNCHANGED <<hash_seed, runs, gen_in, prev_fallback, db_last, upserts, workers,
                   log, dash>>

\* What a turn of Spec can meet
SpecEnvs(text, user_id) ==
    TurnEnvs(GenEnvs(text, user_id, conversations, {"ok"}, TurnR1, TurnR2),
             TurnDb, TurnDb)

ProcessUpdate ==
    /\ turns < MaxTurns
    /\ Update(Senders, {TextHi, TextStats, TextStart},
              [text \in {TextHi, TextStats, TextStart}, id \in {s.id : s \in Senders}
                 |-> SpecEnvs(text, id)])

\* The state after construction, but for the hash key and the inputs of
\* the specifications of single functions.
Idle ==
    /\ bot_stats = InitStats
    /\ users = <<>>
    /\ now = 0
    /\ files = {}
    /\ tmp_seq = 0
    /\ runs = 1
    /\ turns = 0
    /\ last = [handler |-> "none", message |-> NoMessage, raised |-> FALSE]
    /\ calls = <<>>
    /\ gen = NoGen
    /\ prev_fallback = None
    /\ db_last = NoDbOp
    /\ upserts = [u \in {s.id : s \in Senders} |-> 0]
    /\ workers = [w \in 1..NumThreads |-> IdleWorker]
    /\ log = <<>>
    /\ dash = NoDash

NoGenIn == [message |-> <<>>, user_id |-> 0, e |-> DefaultGenEnv]

Init ==
    /\ Idle
    /\ conversations = <<>>
    /\ hash_seed \in Seeds
    /\ gen_in = NoGenIn
    /\ tts = NoTts

Next == ProcessUpdate

\* The program: updates handled one after the other.
Spec == Init /\ [][Next]_vars

----------------------------------------------------------------------------
(* StorageSpec: turns in which the remote model answers and Telegram       *)
(* delivers, while each call of the storage layer works, fails with a      *)
(* database error, or raises another exception.                            *)

StorageEnvs(text, user_id) ==
    { [up |-> u, chat |-> "ok", gen |-> g, tts |-> t, send |-> "ok",
       save |-> sv, apology |-> "ok"] :
         u \in DbOutcomes,
         g \in GenEnvs(text, user_id, conversations, DbOutcomes,
                       {Resp(Some(<<97>>), <<>>)}, {RaiseOutcome}),
         t \in TtsPaths,
         sv \in DbOutcomes }

StorageUpdate ==
    /\ turns < MaxTurns
    /\ Update(Senders, {TextHi, TextWhat},
              [text \in {TextHi, TextWhat}, id \in {s.id : s \in Senders}
                 |-> StorageEnvs(text, id)])

StorageSpec == Init /\ [][StorageUpdate]_vars

----------------------------------------------------------------------------
(* RingSpec: a long run of turns of one sender while the storage layer is  *)
(* down; the k-th message has the text str(k).                             *)

\* The remote model answers "a", every storage call fails with a database
\* error, the voice is synthesized or not, and Telegram delivers.
RingEnvs(text, user_id) ==
    { [up |-> "sqlerr", chat |-> "ok", gen |-> g, tts |-> t, send |-> "ok",
       save |-> "sqlerr", apology |-> "ok"] :
         g \in GenEnvs(text, user_id, conversations, {"sqlerr"},
                       {Resp(Some(<<97>>), <<>>)}, {RaiseOutcome}),
         t \in {[tmp |-> "ok", save |-> "ok"], [tmp |-> "raise", save |-> "ok"]} }

RingUpdate ==
    /\ turns < MaxRingTurns
    /\ Update({s \in Senders : s.id = 1}, {Str(turns + 1)},
              [text \in {Str(turns + 1)}, id \in {1} |-> RingEnvs(text, id)])

RingSpec == Init /\ [][RingUpdate]_vars

----------------------------------------------------------------------------
(* GenSpec: one call of generate_maveli_response, its arguments and the    *)
(* answers of its dependencies drawn when the behaviour starts.            *)

\* The store of GenSpec: one earlier turn of user 1.
GenStore ==
    << [id |-> 1, user_id |-> 1, user_message |-> TextHi, bot_response |-> <<97>>,
        timestamp |-> 0, audio_generated |-> FALSE] >>

\* The answers to the second, shorter request: it raises, has no text at
\* all, has a text, has text only in a candidate, is cut off again, or has a
\* candidate without parts.
RetryOutcomes ==
    { RaiseOutcome,
      Resp(None, <<>>),
      Resp(Some(<<32>>), <<>>),
      Resp(Some(<<98>>), <<>>),
      Resp(None, <<Cand("FinishReason.STOP", <<Some(<<32, 98, 32>>)>>)>>),
      Resp(Some(<<>>), <<Cand("FinishReason.MAX_TOKENS", <<Some(<<97>>)>>)>>),
      Resp(None, <<Cand("FinishReason.STOP", <<None>>)>>),
      Resp(None, <<Cand("FinishReason.MAX_TOKENS", <<>>)>>) }

\* A summary of n characters
Summary(n) == [i \in 1..n |-> 120]

\* The answers of the encyclopedia sources at every rung: a lookup raises,
\* finds no page, or finds a page whose summary is short, as long as the cut
\* or one character longer; the search raises or finds up to four titles.
LadderEnvs ==
    { [ml |-> ml, en |-> en, search |-> sr] :
        ml \in {Page(TRUE, FALSE, <<>>), Page(FALSE, FALSE, <<>>)}
                \cup {Page(FALSE, TRUE, Summary(n)) : n \in {1, 500, 501}},
        en \in {Page(TRUE, FALSE, <<>>), Page(FALSE, FALSE, <<>>)}
                \cup {Page(FALSE, TRUE, Summary(n)) : n \in {1, 300, 301}},
        sr \in {Found(TRUE, <<>>), Found(FALSE, <<>>), Found(FALSE, << <<116>> >>),
                Found(FALSE, << <<116>>, <<117>>, <<118>>, <<119>> >>)} }

GenInputs ==
    UNION { { [message |-> msg, user_id |-> u, e |-> e] :
                e \in GenEnvs(msg, u, GenStore, DbOutcomes, ModelOutcomes, RetryOutcomes) } :
            msg \in {TextHi, TextWhat}, u \in {1, 2} }
    \cup
    UNION { { [message |-> msg, user_id |-> 2, e |-> e] :
                e \in GenEnvs(msg, 2, GenStore, DbOutcomes, ModelOutcomes, RetryOutcomes) } :
            msg \in {TextHello, TextWhatUpper} }
    \cup
    { [message |-> TextWhat, user_id |-> 2,
       e |-> [ctx |-> "ok", q |-> q, wiki |-> w,
              r1 |-> Resp(Some(<<97>>), <<>>), r2 |-> RaiseOutcome]] :
        q \in QueryNewestFirst(GenStore, 2, 3), w \in LadderEnvs }

GenInit ==
    /\ Idle
    /\ conversations = GenStore
    /\ hash_seed \in Seeds
    /\ gen_in \in GenInputs
    /\ tts = NoTts

\* The record of a call of generate_maveli_response
GenCall(user_message, user_id, g) ==
    [called |-> TRUE, message |-> user_message, user_id |-> user_id,
     ret |-> g.ret, raised |-> g.raised, fallback |-> g.fallback,
     model |-> g.model, wiki |-> g.wiki]

GenerateCall ==
    /\ ~gen.called
    /\ gen' = GenCall(gen_in.message, gen_in.user_id,
                      generate_maveli_response(gen_in.message, gen_in.user_id,
                                               conversations, gen_in.e, hash_seed))
    /\ UNCHANGED <<bot_stats, users, conversations, now, files, tmp_seq, hash_seed,
                   runs, turns, last, calls, gen_in, tts, prev_fallback, db_last,
                   upserts, workers, log, dash>>

GenSpec == GenInit /\ [][GenerateCall]_vars

----------------------------------------------------------------------------
(* FallbackSpec: calls of generate_maveli_response while the remote model  *)
(* is unavailable, in one run of the program and over restarts.            *)

\* The fallback reply returned last before the coming step, if any
EarlierFallback ==
    IF gen.called /\ gen.fallback
    THEN Some([message |-> gen.message, user_id |-> gen.user_id, ret |-> gen.ret])
    ELSE prev_fallback

GenerateDown ==
    /\ \E msg \in {TextHi, TextWhat}, u \in {1, 2} :
         \E e \in GenEnvs(msg, u, conversations, {"ok"}, {RaiseOutcome}, {RaiseOutcome}) :
            gen' = GenCall(msg, u, generate_maveli_response(msg, u, conversations,
                                                            e, hash_seed))
    /\ prev_fallback' = EarlierFallback
    /\ UNCHANGED <<bot_stats, users, conversations, now, files, tmp_seq, hash_seed,
                   runs, turns, last, calls, gen_in, tts, db_last, upserts, workers,
                   log, dash>>

\* The process ends and the program is started again: the in-memory
\* counters start anew and the process draws a hash key; the tables and
\* the files on disk stay.
NewRun ==
    /\ runs < MaxRuns
    /\ runs' = runs + 1
    /\ hash_seed' \in Seeds
    /\ bot_stats' = InitStats
    /\ gen' = NoGen
    /\ prev_fallback' = EarlierFallback
    /\ UNCHANGED <<users, conversations, now, files, tmp_seq, turns, last, calls,
                   gen_in, tts, db_last, upserts, workers, log, dash>>

FallbackNext == GenerateDown \/ NewRun

FallbackSpec == Init /\ [][FallbackNext]_vars

----------------------------------------------------------------------------
(* TtsSpec: one call of text_to_speech_malayalam on a text drawn when the  *)
(* behaviour starts.                                                       *)

\* a, space, newline, a Malayalam letter, and two pictographs
TtsAlphabet == {97, 32, 10, 3374, 128512, 9728}

TtsTexts == UNION { [1..n -> TtsAlphabet] : n \in 0..MaxLen }

TtsInit ==
    /\ Idle
    /\ conversations = <<>>
    /\ hash_seed = 1
    /\ gen_in = NoGenIn
    /\ tts \in {[NoTts EXCEPT !.text = t] : t \in TtsTexts}

\* The state a call of text_to_speech_malayalam with the result r leaves
Synthesized(r) ==
    /\ tts' = [called |-> TRUE, text |-> tts.text, ret |-> r.ret,
               created |-> r.created, remote |-> r.remote]
    /\ files' = files \cup r.created
    /\ tmp_seq' = IF r.created = {} THEN tmp_seq ELSE tmp_seq + 1

Synthesize ==
    /\ ~tts.called
    /\ \E e \in TtsPaths :
          Synthesized(text_to_speech_malayalam(tts.text, tmp_seq + 1, e))
    /\ UNCHANGED <<bot_stats, users, conversations, now, hash_seed, runs, turns,
                   last, calls, gen, gen_in, prev_fallback, db_last, upserts,
                   workers, log, dash>>

TtsSpec == TtsInit /\ [][Synthesize]_vars

----------------------------------------------------------------------------
(* DbSpec: the operations of the persistence object called directly, and   *)
(* the clock.                                                              *)

DbUnchanged ==
    UNCHANGED <<bot_stats, files, tmp_seq, hash_seed, runs, last, calls, gen,
                gen_in, tts, prev_fallback, workers, log, dash>>

DbUpsert ==
    /\ turns < MaxDbOps
    /\ \E u \in {1, 2}, name \in {"Asha", "Bala"}, o \in DbOutcomes :
          LET r == create_or_update_user(users, u, Some(name), name, None, now, o) IN
          /\ users' = r.users
          /\ db_last' = [NoDbOp EXCEPT !.op = "create_or_update_user",
                                       !.user_id = u, !.ok = r.ret,
                                       !.names = <<Some(name), name, None>>]
          /\ upserts' = IF r.ret THEN [upserts EXCEPT ![u] = @ + 1] ELSE upserts
    /\ turns' = turns + 1
    /\ UNCHANGED <<conversations, now>>
    /\ DbUnchanged

DbSave ==
    /\ turns < MaxDbOps
    /\ \E u \in {1, 2}, msg \in {TextHi, TextWhat}, o \in DbOutcomes :
          LET r == save_conversation(conversations, u, msg, <<97>>, FALSE, now, o) IN
          /\ conversations' = r.conversations
          /\ db_last' = [NoDbOp EXCEPT
                           !.op = "save_conversation", !.user_id = u, !.ok = r.ret,
                           !.saved = IF r.ret
                                     THEN Some(HistoryEntry(r.conversations[Len(r.conversations)]))
                                     ELSE None]
    /\ turns' = turns + 1
    /\ UNCHANGED <<users, now, upserts>>
    /\ DbUnchanged

\* get_user_conversation_history(u, limit); saved: the turn a successful
\* save_conversation for u stored immediately before this call, if any.
DbHistory ==
    /\ turns < MaxDbOps
    /\ \E u \in {1, 2}, limit \in 1..MaxLimit, o \in DbOutcomes :
         \E q \in QueryNewestFirst(conversations, u, limit) :
            LET r == get_user_conversation_history(conversations, q, o) IN
            db_last' = [op |-> "get_user_conversation_history", user_id |-> u,
                        names |-> <<>>, limit |-> limit, ok |-> o = "ok", result |-> r.ret,
                        rows |-> IF o = "ok" THEN Reverse(q) ELSE <<>>,
                        saved |-> IF /\ db_last.op = "save_conversation"
                                     /\ db_last.ok
                                     /\ db_last.user_id = u
                                  THEN db_last.saved ELSE None]
    /\ turns' = turns + 1
    /\ UNCHANGED <<users, conversations, now, upserts>>
    /\ DbUnchanged

Tick ==
    /\ now < MaxTime
    /\ now' = now + 1
    /\ UNCHANGED <<users, conversations, turns, db_last, upserts>>
    /\ DbUnchanged

DbNext == DbUpsert \/ DbSave \/ DbHistory \/ Tick

DbSpec == Init /\ [][DbNext]_vars

----------------------------------------------------------------------------
(* CountSpec: a few commands and turns, one at a time, that succeed with   *)
(* voice, succeed with text, or fail before or at the send.                *)

CountEnvs(text, user_id) ==
    { [up |-> "ok", chat |-> c, gen |-> g, tts |-> t, send |-> s, save |-> "ok",
       apology |-> "ok"] :
        c \in {"ok", "fail1"},
        g \in GenEnvs(text, user_id, conversations, {"ok"},
                      {Resp(Some(<<97>>), <<>>)}, {RaiseOutcome}),
        t \in {[tmp |-> "ok", save |-> "ok"], [tmp |-> "ok", save |-> "raise"]},
        s \in Outcomes }

CountUpdate ==
    /\ turns < MaxCountTurns
    /\ Update(Senders, {TextHi, TextStart},
              [text \in {TextHi, TextStart}, id \in {s.id : s \in Senders}
                 |-> CountEnvs(text, id)])

CountSpec == Init /\ [][CountUpdate]_vars

----------------------------------------------------------------------------
(* PoolSpec: the polling loop hands each update to a worker thread, and    *)
(* the handlers of the worker threads interleave.  A handler begins with   *)
(* bot_stats['total_messages'] += 1, a read of the counter followed by a   *)
(* write; the rest of the handler is one step.                             *)

\* What the rest of a turn of PoolSpec can meet: the remote model raises or
\* answers "a", and the reply is delivered or not.
PoolEnvs(text, user_id) ==
    { [up |-> "ok", chat |-> "ok", gen |-> g, tts |-> [tmp |-> "ok", save |-> "ok"],
       send |-> s, save |-> "ok", apology |-> "ok"] :
        g \in GenEnvs(text, user_id, conversations, {"ok"},
                      {RaiseOutcome, Resp(Some(<<97>>), <<>>)}, {RaiseOutcome}),
        s \in Outcomes }

\* The polling thread takes an update and puts the first matching handler
\* on the task queue, from which the free worker thread w takes it.
Dispatch(w) ==
    /\ turns < MaxDispatched
    /\ workers[w].pc = "idle"
    /\ \E sender \in Senders, text \in {TextHi, TextStart} :
          LET m == [message_id |-> turns + 1, from_user |-> sender, text |-> text] IN
          workers' = [workers EXCEPT ![w] =
                         [pc |-> "load", handler |-> FirstMatch(m), message |-> m,
                          loaded |-> 0]]
    /\ now' = now + 1
    /\ turns' = turns + 1
    /\ UNCHANGED <<bot_stats, users, conversations, files, tmp_seq, hash_seed, runs,
                   last, calls, gen, gen_in, tts, prev_fallback, db_last, upserts,
                   log, dash>>

\* bot_stats['total_messages'] += 1, the read
LoadCount(w) ==
    /\ workers[w].pc = "load"
    /\ workers' = [workers EXCEPT ![w].pc = "store",
                                  ![w].loaded = bot_stats.total_messages]
    /\ UNCHANGED <<bot_stats, users, conversations, now, files, tmp_seq, hash_seed,
                   runs, turns, last, calls, gen, gen_in, tts, prev_fallback,
                   db_last, upserts, log, dash>>

\* bot_stats['total_messages'] += 1, the write
StoreCount(w) ==
    /\ workers[w].pc = "store"
    /\ bot_stats' = [bot_stats EXCEPT !.total_messages = workers[w].loaded + 1]
    /\ workers' = [workers EXCEPT ![w].pc = "rest"]
    /\ UNCHANGED <<users, conversations, now, files, tmp_seq, hash_seed, runs, turns,
                   last, calls, gen, gen_in, tts, prev_fallback, db_last, upserts,
                   log, dash>>

\* What the handler leaves when the counter has been written already
AfterCount(r) == [r EXCEPT !.stats.total_messages = bot_stats.total_messages]

\* The rest of the handler of w, to its return
Finish(w) ==
    /\ workers[w].pc = "rest"
    /\ LET m == workers[w].message
           h == workers[w].handler
       IN  IF h = "send_welcome"
           THEN \E s \in Outcomes : Ran(h, m, AfterCount(send_welcome(m, s)))
           ELSE /\ h = "handle_message"
                /\ \E e \in PoolEnvs(m.text, m.from_user.id) :
                      Ran(h, m, AfterCount(handle_message(m, e)))
    /\ workers' = [workers EXCEPT ![w] = IdleWorker]
    /\ UNCHANGED <<now, hash_seed, runs, turns, gen_in, prev_fallback, db_last,
                   upserts, log, dash>>

PoolNext ==
    \/ \E w \in DOMAIN workers : Dispatch(w)
    \/ \E w \in DOMAIN workers : LoadCount(w)
    \/ \E w \in DOMAIN workers : StoreCount(w)
    \/ \E w \in DOMAIN workers : Finish(w)

PoolSpec == Init /\ [][PoolNext]_vars

----------------------------------------------------------------------------
(* MonitorSpec: the bot writes lines to bot.log, and the dashboard         *)
(* computes its statistics from the lines written so far.                  *)

\* The users whose messages are logged, by name: "Asha" and, for a user
\* without a first name, "Unknown".
LoggedUsers ==
    { [user_id |-> 1, user_name |-> <<65, 115, 104, 97>>],
      [user_id |-> 2, user_name |-> <<85, 110, 107, 110, 111, 119, 110>>] }

\* The texts logged: "hi", a text of 101 characters, and a text that spells
\* the phrase of a log line itself, "received message from user 7 (x): y".
TextPhrase == PatternLiteral \o <<55, 32, 40, 120, 41, 58, 32, 121>>
LoggedTexts == {TextHi, Summary(101), TextPhrase}

\* The other lines: "Generated audio file: f", "Successfully generated
\* Gemini response: a...", "Error handling message from user 1: e", and a
\* line that is not in the logging format.
OtherLines ==
    { [timestamp |-> TRUE, level |-> "INFO",
       message |-> <<71, 101, 110, 101, 114, 97, 116, 101, 100, 32, 97, 117, 100, 105,
                    111, 32, 102, 105, 108, 101, 58, 32, 102>>],
      [timestamp |-> TRUE, level |-> "INFO",
       message |-> <<83, 117, 99, 99, 101, 115, 115, 102, 117, 108, 108, 121, 32, 103,
                    101, 110, 101, 114, 97, 116, 101, 100, 32, 71, 101, 109, 105, 110,
                    105, 32, 114, 101, 115, 112, 111, 110, 115, 101, 58, 32, 97, 46, 46,
                    46>>],
      [timestamp |-> TRUE, level |-> "ERROR",
       message |-> <<69, 114, 114, 111, 114, 32, 104, 97, 110, 100, 108, 105, 110, 103,
                    32, 109, 101, 115, 115, 97, 103, 101, 32, 102, 114, 111, 109, 32,
                    117, 115, 101, 114, 32, 49, 58, 32, 101>>],
      [timestamp |-> FALSE, level |-> "", message |-> <<101>>] }

MonitorUnchanged ==
    UNCHANGED <<bot_stats, users, conversations, now, files, tmp_seq, hash_seed,
                runs, turns, last, calls, gen, gen_in, tts, prev_fallback, db_last,
                upserts, workers>>

\* handle_message logs the message it received
WriteReceived ==
    /\ Len(log) < MaxLogLines
    /\ \E u \in LoggedUsers, text \in LoggedTexts :
          log' = Append(log,
                        LogLine(Some(Len(log) + 1), "INFO",
                                ReceivedMessage(u.user_id, u.user_name, text),
                                <<[user_id |-> u.user_id, user_name |-> u.user_name,
                                   text |-> text]>>))
    /\ UNCHANGED dash
    /\ MonitorUnchanged

\* Another line is written to the log
WriteOther ==
    /\ Len(log) < MaxLogLines
    /\ \E l \in OtherLines :
          log' = Append(log,
                        LogLine(IF l.timestamp THEN Some(Len(log) + 1) ELSE None,
                                l.level, l.message, <<>>))
    /\ UNCHANGED dash
    /\ MonitorUnchanged

\* The dashboard is drawn: stats = get_bot_statistics()
Refresh ==
    /\ dash.read # Len(log)
    /\ dash' = [read |-> Len(log), stats |-> get_bot_statistics(log)]
    /\ UNCHANGED log
    /\ MonitorUnchanged

MonitorNext == WriteReceived \/ WriteOther \/ Refresh

MonitorSpec == Init /\ [][MonitorNext]_vars

----------------------------------------------------------------------------
(* Properties.                                                             *)

\* C1: for every turn in which text_to_speech_malayalam returned an audio
\* path, that temporary file no longer exists when handle_message returns,
\* whether send_voice succeeded or raised.
C1_TempFileGone ==
    (last.handler = "handle_message" /\ tts.called /\ tts.ret # None)
        => tts.ret[1] \notin files

\* C2: whenever text_to_speech_malayalam returns None because the remote
\* TTS call or the file write failed, no temporary file created by that
\* call remains on disk.
C2_NoFileAfterFailedSynthesis ==
    (tts.called /\ tts.ret = None /\ tts.remote > 0)
        => tts.created \cap files = {}

\* Whether the last handler made a call of op carrying what.
Called(op, what) == \E i \in DOMAIN calls : calls[i].op = op /\ calls[i].what = what
CalledOp(op) == \E i \in DOMAIN calls : calls[i].op = op

\* C3: a /stats command always goes to send_stats: the statistics reply for
\* the administrator, the access-denied reply for every other sender, and
\* never an ordinary turn (no model call, no turn persisted).
C3_StatsGoesToStatsHandler ==
    last.message.text = TextStats
        => /\ last.handler = "send_stats"
           /\ IF last.message.from_user.id = ADMIN_USER_ID
              THEN Called("reply_to", "stats")
              ELSE Called("reply_to", "denied")
           /\ ~gen.called
           /\ ~CalledOp("generate_content")
           /\ ~CalledOp("save_conversation")

\* C4: in every reachable state every row of conversations has a user_id
\* for which a users row exists that was created at or before the time the
\* conversation row was saved.
C4_TurnsReferenceUsers ==
    \A i \in DOMAIN conversations :
        /\ conversations[i].user_id \in DOMAIN users
        /\ users[conversations[i].user_id].created_at <= conversations[i].timestamp

\* C5: generate_maveli_response never raises and always returns non-empty
\* text, whatever the context retrieval, the encyclopedia lookup and each
\* call of the remote model do.
C5_GenerateTotal ==
    gen.called => (~gen.raised /\ Len(gen.ret) > 0)

\* The context retrieval raised, the first answer was cut off and the retry
\* came back without text: the reply is from the fallback pool.
C5_Witness ==
    /\ gen.called
    /\ gen_in.e.ctx = "raise"
    /\ Len(gen.model) = 2
    /\ ~gen_in.e.r2.raises
    /\ gen.fallback
    /\ gen.ret \in {fallback_responses[i] : i \in DOMAIN fallback_responses}

\* C6: for any limit >= 1 and any stored turns, also with equal timestamps,
\* get_user_conversation_history(userId, limit) returns at most limit
\* entries, all of userId, in non-decreasing timestamp order, and called
\* immediately after a successful save_conversation for that user the newly
\* saved turn is the last element of the result.
C6_HistoryChronological ==
    (db_last.op = "get_user_conversation_history" /\ db_last.ok)
        => LET h == db_last.result IN
           /\ Len(h) <= db_last.limit
           /\ Len(db_last.rows) = Len(h)
           /\ \A i \in DOMAIN h : conversations[db_last.rows[i]].user_id = db_last.user_id
           /\ \A i, j \in DOMAIN h : i <= j => h[i].timestamp <= h[j].timestamp
           /\ db_last.saved # None
                => (Len(h) > 0 /\ h[Len(h)] = db_last.saved[1])

\* C7: with the remote model unavailable, two calls of
\* generate_maveli_response with the same message and the same user return
\* the same entry of the fallback pool, also when the calls are made in
\* different runs of the program, and the entry is the one at index
\* hash(message + userId) mod the size of the pool.
C7_FallbackDeterministic ==
    (gen.called /\ gen.fallback)
        => /\ gen.ret = fallback_responses[
                           (hash(gen.message \o Str(gen.user_id), hash_seed)
                              % Len(fallback_responses)) + 1]
           /\ (/\ prev_fallback # None
               /\ prev_fallback[1].message = gen.message
               /\ prev_fallback[1].user_id = gen.user_id)
                 => gen.ret = prev_fallback[1].ret

\* A call of the remote model raised during the last turn.
ModelRaised == \E i \in DOMAIN calls : calls[i].op = "generate_content" /\ ~calls[i].ok

\* Every call of the transport during the last turn worked.
TransportWorked ==
    \A i \in DOMAIN calls :
        calls[i].op \in {"send_chat_action", "send_voice", "reply_to"} => calls[i].ok

\* C8: if the remote model call raises during a turn and delivery to the
\* transport works, the reply delivered is an entry of the fallback pool,
\* failed_responses is unchanged by the turn and successful_responses is
\* incremented by exactly 1.
C8_ModelFailureIsASuccessfulTurn ==
    [][ (last'.handler = "handle_message" /\ ModelRaised' /\ TransportWorked')
          => /\ \E i \in DOMAIN calls' :
                  /\ calls'[i].what = "reply"
                  /\ calls'[i].text \in {fallback_responses[k] :
                                            k \in DOMAIN fallback_responses}
             /\ bot_stats'.failed_responses = bot_stats.failed_responses
             /\ bot_stats'.successful_responses = bot_stats.successful_responses + 1
      ]_vars

C8_Witness ==
    /\ last.handler = "handle_message"
    /\ ModelRaised
    /\ TransportWorked
    /\ gen.fallback
    /\ Called("send_voice", "reply")
    /\ bot_stats.successful_responses = 1
    /\ bot_stats.failed_responses = 0

\* C9: after any sequence of turns recent_messages holds at most 50
\* entries, which are the most recently received messages in arrival order;
\* after 51 turns its first element is the entry of turn #2.
C9_RecentMessagesRing ==
    LET buf == bot_stats.recent_messages IN
    /\ Len(buf) = Min(turns, 50)
    /\ \A i \in DOMAIN buf : buf[i].message = Str(turns - Len(buf) + i)
    /\ turns = 51 => buf[1].message = Str(2)

C9_Witness ==
    /\ turns = 51
    /\ Len(bot_stats.recent_messages) = 50
    /\ bot_stats.recent_messages[1].message = <<50>>
    /\ bot_stats.recent_messages[50].message = <<53, 49>>

\* Only whitespace and code points the symbol pattern matches
OnlySymbols(text) == \A i \in DOMAIN text : IsSpace(text[i]) \/ InEmojiPattern(text[i])

\* C10: when the text is empty or consists only of stripped symbols and
\* whitespace, text_to_speech_malayalam returns None without invoking the
\* remote TTS service and without creating a temporary file.
C10_NothingToSpeak ==
    (tts.called /\ OnlySymbols(tts.text))
        => (tts.ret = None /\ tts.remote = 0 /\ tts.created = {} /\ files = {})

C10_Witness ==
    /\ tts.called
    /\ tts.text = <<128512, 128512, 128512>>
    /\ tts.ret = None

\* The positions of the calls of op carrying what made by the last handler
CallsOf(op, what) == {i \in DOMAIN calls : calls[i].op = op /\ calls[i].what = what}

\* The reply of the last turn was delivered, by voice or as text
ReplyDelivered ==
    \E i \in DOMAIN calls :
        calls[i].op \in {"send_voice", "reply_to"} /\ calls[i].what = "reply" /\ calls[i].ok

\* C11: when text_to_speech_malayalam returns None for a turn, the turn is
\* not aborted: the reply is sent as plain text and not as voice; once it is
\* delivered the turn counts as successful without incrementing
\* audio_generations, and it is persisted with audio_generated = false.
C11_SpeechFailureGivesText ==
    [][ (last'.handler = "handle_message" /\ tts'.called /\ tts'.ret = None)
          => /\ ~CalledOp("send_voice")'
             /\ CallsOf("reply_to", "reply")' # {}
             /\ \A i \in CallsOf("reply_to", "reply")' : calls'[i].text = gen'.ret
             /\ ReplyDelivered'
                  => /\ bot_stats'.successful_responses = bot_stats.successful_responses + 1
                     /\ bot_stats'.audio_generations = bot_stats.audio_generations
                     /\ bot_stats'.failed_responses = bot_stats.failed_responses
                     /\ CallsOf("save_conversation", "audio_generated=False")' # {}
                     /\ CallsOf("save_conversation", "audio_generated=True")' = {}
                     /\ (\A i \in DOMAIN calls' :
                            calls'[i].op = "save_conversation" => calls'[i].ok)
                          => conversations' =
                               Append(conversations,
                                      [id |-> Len(conversations) + 1,
                                       user_id |-> last'.message.from_user.id,
                                       user_message |-> last'.message.text,
                                       bot_response |-> gen'.ret,
                                       timestamp |-> now,
                                       audio_generated |-> FALSE])
      ]_vars

\* The remote synthesis failed, the reply went out as text and was stored.
C11_Witness ==
    /\ last.handler = "handle_message"
    /\ tts.called /\ tts.ret = None /\ tts.remote = 1
    /\ ReplyDelivered
    /\ bot_stats.successful_responses = 1
    /\ bot_stats.audio_generations = 0
    /\ Len(conversations) = 1
    /\ ~conversations[1].audio_generated

\* A call of the transport other than the apology raised in the last turn.
TurnStepRaised ==
    \E i \in DOMAIN calls :
        /\ calls[i].op \in {"send_chat_action", "send_voice", "reply_to"}
        /\ calls[i].what # "apology"
        /\ ~calls[i].ok

\* C12: if a step of the turn up to and including the delivery raises, the
\* turn is marked failed (failed_responses + 1, successful_responses
\* unchanged), exactly one attempt is made to send the fixed apology, no
\* save_conversation call is made, and handle_message does not raise even
\* if sending the apology fails too.
C12_FailedTurnApologizesOnce ==
    [][ (last'.handler = "handle_message" /\ TurnStepRaised')
          => /\ bot_stats'.failed_responses = bot_stats.failed_responses + 1
             /\ bot_stats'.successful_responses = bot_stats.successful_responses
             /\ bot_stats'.audio_generations = bot_stats.audio_generations
             /\ Cardinality(CallsOf("reply_to", "apology")') = 1
             /\ calls'[Len(calls')].what = "apology"
             /\ calls'[Len(calls')].text = ErrorMessage
             /\ ~CalledOp("save_conversation")'
             /\ conversations' = conversations
             /\ ~last'.raised
      ]_vars

\* The voice delivery raised and so did the apology.
C12_Witness ==
    /\ last.handler = "handle_message"
    /\ \E i \in CallsOf("send_voice", "reply") : ~calls[i].ok
    /\ \E i \in CallsOf("reply_to", "apology") : ~calls[i].ok
    /\ bot_stats.failed_responses = 1
    /\ ~last.raised

\* The calls of the storage layer that failed in the last turn
FailedStorageCalls(op) == {i \in DOMAIN calls : calls[i].op = op /\ ~calls[i].ok}

\* C13: a storage failure in create_or_update_user or save_conversation
\* never fails the turn: the failed operation leaves the stored tables
\* unchanged, no exception leaves the handler, and the turn still generates
\* and delivers its reply and is counted in successful_responses.
C13_StorageFailureIsNotTurnFailure ==
    [][ (/\ last'.handler = "handle_message"
         /\ TransportWorked'
         /\ (FailedStorageCalls("create_or_update_user")'
               \cup FailedStorageCalls("save_conversation")') # {})
          => /\ gen'.called
             /\ ReplyDelivered'
             /\ ~last'.raised
             /\ bot_stats'.successful_responses = bot_stats.successful_responses + 1
             /\ bot_stats'.failed_responses = bot_stats.failed_responses
             /\ FailedStorageCalls("create_or_update_user")' # {} => users' = users
             /\ FailedStorageCalls("save_conversation")' # {}
                  => conversations' = conversations
      ]_vars

\* The upsert raised, the save failed, and the reply was delivered.
C13_Witness ==
    /\ last.handler = "handle_message"
    /\ CallsOf("create_or_update_user", "raise") # {}
    /\ FailedStorageCalls("save_conversation") # {}
    /\ ReplyDelivered
    /\ bot_stats.successful_responses = 1
    /\ bot_stats.failed_responses = 0
    /\ users = <<>> /\ conversations = <<>>

\* The stage of a turn an outside call belongs to: user upsert, response
\* generation, audio attempt, delivery, persistence (0: none of these).
Stage(c) ==
    IF c.op = "create_or_update_user" THEN 1
    ELSE IF c.op = "generate_content" THEN 2
    ELSE IF c.op = "gTTS.save" THEN 3
    ELSE IF c.what = "reply" THEN 4
    ELSE IF c.op = "save_conversation" THEN 5
    ELSE 0

\* C14: within each turn the steps occur in the order user upsert, response
\* generation, audio attempt, delivery, persistence: save_conversation is
\* called only after the reply of the turn was delivered, and the upsert is
\* attempted before the model is invoked.
C14_StepsInOrder ==
    last.handler = "handle_message"
        => /\ \A i, j \in DOMAIN calls :
                (i < j /\ Stage(calls[i]) > 0 /\ Stage(calls[j]) > 0)
                    => Stage(calls[i]) <= Stage(calls[j])
           /\ \A i \in DOMAIN calls :
                calls[i].op = "save_conversation"
                    => \E j \in 1..(i - 1) : calls[j].what = "reply" /\ calls[j].ok
           /\ \A i \in DOMAIN calls :
                calls[i].op = "generate_content"
                    => \E j \in 1..(i - 1) : calls[j].op = "create_or_update_user"
           /\ \A k \in {1, 3, 4, 5} :
                Cardinality({i \in DOMAIN calls : Stage(calls[i]) = k}) <= 1

\* A voice turn that went through all five stages.
C14_Witness ==
    /\ last.handler = "handle_message"
    /\ [i \in DOMAIN calls |-> Stage(calls[i])] = <<1, 0, 2, 0, 3, 4, 5>>

\* The first candidate of the answer r of the remote model reports that the
\* output-length bound cut it off.
CutOff(r) ==
    /\ ~r.raises
    /\ r.candidates # <<>>
    /\ r.candidates[1].finish_reason = "FinishReason.MAX_TOKENS"

\* C15: within one call of generate_maveli_response the remote model is
\* invoked at most twice; the second invocation happens if and only if the
\* first returned a response whose first candidate signals truncation, it
\* uses the shorter prompt and the output bound 100 instead of 150, and
\* there is no third invocation even if the retry is truncated too.
C15_AtMostOneRetry ==
    gen.called
        => /\ Len(gen.model) \in {1, 2}
           /\ gen.model[1].prompt.kind = "full"
           /\ gen.model[1].max_output_tokens = 150
           /\ Len(gen.model) = 2 <=> CutOff(gen_in.e.r1)
           /\ Len(gen.model) = 2
                => /\ gen.model[2].prompt.kind = "short"
                   /\ gen.model[2].max_output_tokens = 100

\* Both the first answer and the retry were cut off.
C15_Witness ==
    /\ gen.called
    /\ CutOff(gen_in.e.r1)
    /\ CutOff(gen_in.e.r2)
    /\ Len(gen.model) = 2

\* The response the reply is extracted from: the retry's when the first
\* answer was cut off
FinalResponse == IF CutOff(gen_in.e.r1) THEN gen_in.e.r2 ELSE gen_in.e.r1

\* An optional text that is non-empty after trimming
HasText(o) == o # None /\ Strip(o[1]) # <<>>

\* The first content part of the first candidate of r, if any
FirstPart(r) ==
    IF r.candidates # <<>> /\ r.candidates[1].parts # <<>>
    THEN r.candidates[1].parts[1]
    ELSE None

\* C16: reply extraction tries the direct text field of the response first
\* and then the first content part of the first candidate, and the first
\* non-empty match wins: whenever either holds text that is non-empty after
\* trimming, generate_maveli_response returns that text (the direct field's
\* if both do) and no fallback reply, also when the direct text field is
\* whitespace-only and the candidate part holds real text.
C16_FirstNonEmptyMatchWins ==
    (gen.called /\ ~FinalResponse.raises)
        => /\ HasText(FinalResponse.text)
                => (~gen.fallback /\ gen.ret = Strip(FinalResponse.text[1]))
           /\ (~HasText(FinalResponse.text) /\ HasText(FirstPart(FinalResponse)))
                => (~gen.fallback /\ gen.ret = Strip(FirstPart(FinalResponse)[1]))

\* The code point c with an upper-case Latin letter replaced by its
\* lower-case form
FoldCase(c) == IF c \in (65..90) \cup ((192..222) \ {215}) THEN c + 32 ELSE c

\* The lower-cased text msg contains the term w
Mentions(msg, w) ==
    \E i \in 0..(Len(msg) - Len(w)) : \A k \in 1..Len(w) : FoldCase(msg[i + k]) = w[k]

\* The user user_id has no stored turn
NoHistory(user_id) == \A i \in DOMAIN conversations : conversations[i].user_id # user_id

\* C17: the encyclopedia lookup is attempted in a call of
\* generate_maveli_response if and only if the lower-cased message contains
\* one of the fixed trigger terms; for the message "Hello" of a user without
\* history no encyclopedia call is made and the prompt consists of the
\* persona script, an empty context block, an empty knowledge block and the
\* literal message.
C17_LookupIffTriggerTerm ==
    gen.called
        => /\ (gen.wiki # <<>>) <=> (\E w \in TriggerWords : Mentions(gen.message, w))
           /\ (gen.message = TextHello /\ NoHistory(gen.user_id))
                => /\ gen.wiki = <<>>
                   /\ gen.model # <<>>
                   /\ gen.model[1].prompt
                        = [kind |-> "full", persona |-> MAVELI_SYSTEM_PROMPT,
                           context |-> <<>>, knowledge |-> <<>>,
                           message |-> TextHello]

C17_Witness ==
    /\ gen.called
    /\ gen.message = TextHello
    /\ NoHistory(gen.user_id)
    /\ gen.wiki = <<>>
    /\ ~gen.fallback

\* A call for an upper-case spelling of a trigger term consulted the
\* encyclopedia.
C17_UpperCaseWitness ==
    gen.called /\ gen.message = TextWhatUpper /\ gen.wiki # <<>>

\* The sequence p is a prefix of the sequence s
IsPrefix(p, s) == Len(p) <= Len(s) /\ p = SubSeq(s, 1, Len(p))

\* The encyclopedia rung named c was reached in the recorded call
Reached(c) == \E i \in DOMAIN gen.wiki : gen.wiki[i] = c

\* C18: search_wikipedia_knowledge never raises and follows a strict ladder:
\* the primary-language source is asked first, the secondary-language source
\* only if the primary page does not exist, the search only if neither page
\* exists; the search contributes at most three titles, a summary is cut to
\* at most 500 (primary) or 300 (secondary) characters, and a remote error
\* at any rung reached yields the empty string, the request to the model
\* being made all the same.
C18_LookupLadder ==
    (gen.called /\ gen.wiki # <<>>)
        => LET w == gen_in.e.wiki
               k == gen.model[1].prompt.knowledge
           IN  /\ ~gen.raised
               /\ gen.wiki \in {<<"ml">>, <<"ml", "en">>, <<"ml", "en", "search">>}
               /\ Reached("en") <=> (~w.ml.raises /\ ~w.ml.exists)
               /\ Reached("search")
                    <=> (Reached("en") /\ ~w.en.raises /\ ~w.en.exists)
               /\ (\/ w.ml.raises
                   \/ Reached("en") /\ w.en.raises
                   \/ Reached("search") /\ w.search.raises) => k = <<>>
               /\ k # <<>>
                    => /\ k[1].source = "ml"
                            => /\ gen.wiki = <<"ml">> /\ w.ml.exists
                               /\ Len(k[1].body) <= 500
                               /\ IsPrefix(k[1].body, w.ml.summary)
                       /\ k[1].source = "en"
                            => /\ gen.wiki = <<"ml", "en">> /\ w.en.exists
                               /\ Len(k[1].body) <= 300
                               /\ IsPrefix(k[1].body, w.en.summary)
                       /\ k[1].source = "search"
                            => /\ gen.wiki = <<"ml", "en", "search">>
                               /\ Len(k[1].titles) <= 3
                               /\ IsPrefix(k[1].titles, w.search.results)

\* The search was reached and found four titles, of which three came back.
C18_Witness ==
    /\ gen.called
    /\ gen.wiki = <<"ml", "en", "search">>
    /\ Len(gen_in.e.wiki.search.results) = 4
    /\ gen.model[1].prompt.knowledge # <<>>
    /\ Len(gen.model[1].prompt.knowledge[1].titles) = 3

\* A primary summary one character over the cut came back cut.
C18_CutWitness ==
    /\ gen.called
    /\ Len(gen_in.e.wiki.ml.summary) = 501
    /\ gen.model[1].prompt.knowledge # <<>>
    /\ Len(gen.model[1].prompt.knowledge[1].body) = 500

\* A remote error at the second rung ended the lookup with the empty string.
C18_ErrorWitness ==
    /\ gen.called
    /\ gen.wiki = <<"ml", "en">>
    /\ gen_in.e.wiki.en.raises
    /\ gen.model[1].prompt.knowledge = <<>>

\* The step is a call of create_or_update_user that returned True
UpsertWorked == turns' # turns /\ db_last'.op = "create_or_update_user" /\ db_last'.ok

\* C19: create_or_update_user creates the users row with message_count = 1
\* when the identifier is absent, and otherwise overwrites the name fields,
\* refreshes last_seen and increments message_count by exactly 1 while
\* leaving created_at unchanged; no other row changes, no other operation
\* and no failed upsert changes the table, no step deletes a row, and hence
\* the message_count of a user always equals the number of successful
\* upserts for that identifier.
C19_UpsertCounts ==
    /\ [](\A u \in DOMAIN upserts :
             IF u \in DOMAIN users
             THEN users[u].message_count = upserts[u]
             ELSE upserts[u] = 0)
    /\ [][ /\ DOMAIN users \subseteq DOMAIN users'
           /\ IF UpsertWorked
              THEN LET u == db_last'.user_id IN
                   /\ DOMAIN users' = DOMAIN users \cup {u}
                   /\ \A v \in DOMAIN users \ {u} : users'[v] = users[v]
                   /\ users'[u].username = db_last'.names[1]
                   /\ users'[u].first_name = db_last'.names[2]
                   /\ users'[u].last_name = db_last'.names[3]
                   /\ users'[u].last_seen = now
                   /\ IF u \in DOMAIN users
                      THEN /\ users'[u].message_count = users[u].message_count + 1
                           /\ users'[u].created_at = users[u].created_at
                      ELSE users'[u].message_count = 1
              ELSE users' = users ]_vars

\* A user first seen under other names and at an earlier time has been
\* counted twice.
C19_Witness ==
    /\ db_last.op = "create_or_update_user"
    /\ db_last.ok
    /\ db_last.user_id \in DOMAIN users
    /\ users[db_last.user_id].message_count = 2
    /\ users[db_last.user_id].first_name = "Bala"
    /\ users[db_last.user_id].created_at < users[db_last.user_id].last_seen

\* The worker threads that are inside a handler
Busy == {w \in DOMAIN workers : workers[w].pc # "idle"}

\* C20: turns are serialized: at most one handler execution is in progress
\* at any time, so the shared counters have a single writer and
\* total_messages equals the number of handler executions started, once
\* each of them has done its increment (no lost updates).
C20_TurnsSerialized ==
    /\ Cardinality(Busy) <= 1
    /\ (\A w \in DOMAIN workers : workers[w].pc \notin {"load", "store"})
          => bot_stats.total_messages = turns

\* No update is lost: with every handler returned the counter is the number
\* of handler executions.
NoLostUpdate == Busy = {} => bot_stats.total_messages = turns

\* The messages the last handler execution tried to send
Outbound == {i \in DOMAIN calls : calls[i].op \in {"send_voice", "reply_to"}}

\* The transport took every message the last handler execution sent
SendsAccepted == \A i \in Outbound : calls[i].ok

\* C21: every inbound text message for which the transport accepts the
\* outbound sends results in exactly one outbound message; in a turn of
\* handle_message it is a voice reply or a plain-text reply carrying the
\* generated reply, or the fixed apology; a delivered reply and an apology
\* never occur in the same turn; and the voice or text reply is addressed as
\* a reply to the triggering message.
C21_ExactlyOneOutboundMessage ==
    /\ (last.handler # "none" /\ SendsAccepted) => Cardinality(Outbound) = 1
    /\ (last.handler = "handle_message" /\ SendsAccepted)
          => \A i \in Outbound :
                \/ /\ calls[i].what = "reply"
                   /\ gen.called
                   /\ calls[i].text = gen.ret
                   /\ calls[i].op = "send_voice" <=> (tts.called /\ tts.ret # None)
                \/ /\ calls[i].op = "reply_to"
                   /\ calls[i].what = "apology"
                   /\ calls[i].text = ErrorMessage
    /\ last.handler = "handle_message"
          => /\ ~(ReplyDelivered /\ CallsOf("reply_to", "apology") # {})
             /\ \A i \in Outbound :
                   calls[i].what = "reply"
                      => calls[i].reply_to = last.message.message_id

\* A turn answered by one voice message, sent as a reply to the update.
C21_Witness ==
    /\ last.handler = "handle_message"
    /\ SendsAccepted
    /\ Cardinality(Outbound) = 1
    /\ \E i \in Outbound :
          /\ calls[i].op = "send_voice"
          /\ calls[i].reply_to = last.message.message_id
          /\ last.message.message_id > 0

\* A turn answered by the apology alone.
C21_ApologyWitness ==
    /\ last.handler = "handle_message"
    /\ SendsAccepted
    /\ \E i \in Outbound : calls[i].what = "apology"

\* A voice message was delivered in the last handler execution
VoiceDelivered ==
    \E i \in DOMAIN calls : calls[i].op = "send_voice" /\ calls[i].ok

\* C22: after any sequence of commands and turns processed one at a time,
\* successful_responses + failed_responses <= total_messages and
\* audio_generations <= successful_responses; every execution of
\* handle_message increments exactly one of successful_responses and
\* failed_responses, by exactly 1; a command increments neither; and
\* audio_generations is incremented in a turn, by exactly 1, if and only if
\* a voice message was delivered in that turn.
C22_CountersAddUp ==
    /\ [](/\ bot_stats.successful_responses + bot_stats.failed_responses
                <= bot_stats.total_messages
          /\ bot_stats.audio_generations <= bot_stats.successful_responses)
    /\ [][ turns' # turns
             => /\ last'.handler = "handle_message"
                     => \/ /\ bot_stats'.successful_responses
                                = bot_stats.successful_responses + 1
                           /\ bot_stats'.failed_responses = bot_stats.failed_responses
                        \/ /\ bot_stats'.successful_responses
                                = bot_stats.successful_responses
                           /\ bot_stats'.failed_responses
                                = bot_stats.failed_responses + 1
                /\ last'.handler # "handle_message"
                     => /\ bot_stats'.successful_responses
                             = bot_stats.successful_responses
                        /\ bot_stats'.failed_responses = bot_stats.failed_responses
                /\ bot_stats'.audio_generations
                     = bot_stats.audio_generations + (IF VoiceDelivered' THEN 1 ELSE 0)
                /\ VoiceDelivered' => last'.handler = "handle_message"
        ]_vars

\* A command, a failed turn and a turn answered by voice have been handled.
C22_Witness ==
    /\ turns = 3
    /\ bot_stats.total_messages = 3
    /\ bot_stats.failed_responses = 1
    /\ bot_stats.successful_responses = 1
    /\ bot_stats.audio_generations = 1
    /\ last.handler = "handle_message"
    /\ VoiceDelivered

\* The entries of the fallback pool
FallbackPool == {fallback_responses[k] : k \in DOMAIN fallback_responses}

\* C23: when the first answer of the remote model reports truncation, the
\* retry is made whether or not the first answer carried usable text, and
\* the value generate_maveli_response returns is derived from the retry
\* alone: the text extracted from it, or an entry of the fallback pool if
\* the retry raises or yields no text; the text of the cut-off first answer
\* is never returned.
C23_CutOffAnswerIsDiscarded ==
    (gen.called /\ CutOff(gen_in.e.r1))
        => LET first == ExtractText(gen_in.e.r1)
               retry == IF gen_in.e.r2.raises THEN <<>> ELSE ExtractText(gen_in.e.r2)
           IN  /\ Len(gen.model) = 2
               /\ IF retry = <<>>
                  THEN gen.fallback /\ gen.ret \in FallbackPool
                  ELSE ~gen.fallback /\ gen.ret = retry
               /\ (first # <<>> /\ first # retry) => gen.ret # first

\* A cut-off first answer with usable text was followed by a retry with
\* another text, which was returned.
C23_Witness ==
    /\ gen.called
    /\ CutOff(gen_in.e.r1)
    /\ ExtractText(gen_in.e.r1) # <<>>
    /\ ~gen_in.e.r2.raises
    /\ ExtractText(gen_in.e.r2) # <<>>
    /\ ExtractText(gen_in.e.r2) # ExtractText(gen_in.e.r1)
    /\ gen.ret = ExtractText(gen_in.e.r2)

\* A cut-off first answer with usable text was followed by a failed retry,
\* and a canned reply was returned.
C23_FallbackWitness ==
    /\ gen.called
    /\ CutOff(gen_in.e.r1)
    /\ ExtractText(gen_in.e.r1) # <<>>
    /\ gen_in.e.r2.raises
    /\ gen.fallback

\* The lines for received messages among the lines the dashboard read last,
\* in log order
ReceivedRead == SelectSeq(SubSeq(log, 1, dash.read), LAMBDA l : l.about # <<>>)

\* C24: for every log line the orchestrator writes for a received message,
\* get_bot_statistics counts it in user_messages and appends an entry with
\* that id, name and text to recent_user_messages, so that
\* recent_user_messages holds min(user_messages, 20) entries, the most
\* recent ones in log order.
C24_ReceivedMessagesListed ==
    LET recent == dash.stats.recent_user_messages
        skip   == Len(ReceivedRead) - Len(recent)
    IN  /\ dash.stats.user_messages = Len(ReceivedRead)
        /\ Len(recent) = Min(dash.stats.user_messages, 20)
        /\ \A k \in DOMAIN recent :
              LET about == ReceivedRead[skip + k].about[1] IN
              /\ recent[k].user_id = Str(about.user_id)
              /\ recent[k].user_name = about.user_name
              /\ recent[k].message = Take(about.text, 100) \o <<46, 46, 46>>

\* Every line for a received message is counted in user_messages.
ReceivedMessagesCounted == dash.stats.user_messages = Len(ReceivedRead)

\* The dashboard lists no message however many it counts, unless the text
\* of a message spells the phrase itself in lower case.
NothingListed ==
    (\A i \in 1..dash.read :
        log[i].about # <<>> => log[i].about[1].text # TextPhrase)
        => dash.stats.recent_user_messages = <<>>

\* The pattern matched inside the text of a message.
InnerMatchListed ==
    /\ dash.stats.recent_user_messages # <<>>
    /\ dash.stats.recent_user_messages[1].user_id = <<55>>
    /\ dash.stats.recent_user_messages[1].user_name = <<120>>
    /\ dash.stats.recent_user_messages[1].message = <<121, 46, 46, 46>>

====
